---- MODULE Spec2Model ----
(***************************************************************************)
(* A model of phpx: the identifier parser and source resolver              *)
(* (resolver.rs), the artifact cache (cache.rs), the isolated installer    *)
(* (composer.rs) and the orchestrator (runner.rs).                         *)
(*                                                                         *)
(* Strings are modelled by their structure.  A tool or package name is a   *)
(* sequence of tokens in which "/" and "-" are tokens of their own         *)
(* ("laravel/pint" is <<"laravel", "/", "pint">>).  A version string is a  *)
(* record: vp counts its leading 'v' characters, kind says whether the     *)
(* rest is a full semantic version ("sem"), a range expression ("req") or  *)
(* any other text ("lit").  An Option is a sequence of length 0 or 1.      *)
(***************************************************************************)
EXTENDS Integers, Sequences, FiniteSets, TLC

VARIABLES
    pc,      \* pc[p]: "off" (not started), "ready" (Runner::new returned), "done";
             \* overlapping launches also stop at the instants in between
    mem,     \* mem[p]: CacheManager.entries of process p (a set of key/entry pairs)
    doc,     \* the persisted cache document cache.json (a set of key/entry pairs)
    fs,      \* backing storage under the cache root: path -> content
    now,     \* the system clock, in seconds
    last,    \* what the last operation did (its inputs, outcome and log)
    q,       \* pure-function specifications: the drawn input
    r,       \* pure-function specifications: the computed result
    torn,    \* cache.json has been truncated by a save that has not written it yet
    job      \* job[p]: what run_tool of process p did and the artifact it executes

vars == <<pc, mem, doc, fs, now, last, q, r, torn, job>>
runVars == <<pc, mem, doc, fs, now, last, torn, job>>
pureVars == <<q, r>>

(***************************************************************************)
(* Bounds of the model                                                     *)
(***************************************************************************)
MaxTime == 2          \* the clock runs over 0..MaxTime
MaxRel == 2           \* longest release list drawn for the release-listing stage

(***************************************************************************)
(* Options                                                                 *)
(***************************************************************************)
None == <<>>
Some(x) == <<x>>
IsSome(o) == Len(o) > 0
IsNone(o) == Len(o) = 0
Unwrap(o) == o[1]

\* `let x = e;`: e is computed once and F is applied to its value
Bind(e, F(_)) == CHOOSE y \in {F(x) : x \in {e}} : TRUE

(***************************************************************************)
(* Version strings and the semver crate's Version / VersionReq             *)
(***************************************************************************)
Sem(a, b, c) == [vp |-> 0, kind |-> "sem", op |-> "", ver |-> <<a, b, c>>, lit |-> ""]
Req(op, a, b, c) == [vp |-> 0, kind |-> "req", op |-> op, ver |-> <<a, b, c>>, lit |-> ""]
Lit(l) == [vp |-> 0, kind |-> "lit", op |-> "", ver |-> <<0, 0, 0>>, lit |-> l]
LATEST == Lit("latest")

\* format!("v{}", s)
WithV(s) == [s EXCEPT !.vp = @ + 1]
\* s.trim_start_matches('v')
trim_start_matches_v(s) == [s EXCEPT !.vp = 0]

\* Version::parse: only a full major.minor.patch with no prefix parses.
VersionParse(s) ==
    IF s.vp = 0 /\ s.kind = "sem"
    THEN [ok |-> TRUE, val |-> s.ver]
    ELSE [ok |-> FALSE, val |-> <<0, 0, 0>>]

\* Version::to_string
VersionToString(v) == Sem(v[1], v[2], v[3])

\* VersionReq::parse: a range expression, or a bare version (a caret range).
VersionReqParse(s) ==
    IF s.vp = 0 /\ s.kind = "req" THEN [ok |-> TRUE, val |-> [op |-> s.op, ver |-> s.ver]]
    ELSE IF s.vp = 0 /\ s.kind = "sem" THEN [ok |-> TRUE, val |-> [op |-> "^", ver |-> s.ver]]
    ELSE [ok |-> FALSE, val |-> [op |-> "", ver |-> <<0, 0, 0>>]]

\* Version's Ord: by major, then minor, then patch, as numbers.
VerLess(a, b) ==
    \/ a[1] < b[1]
    \/ a[1] = b[1] /\ a[2] < b[2]
    \/ a[1] = b[1] /\ a[2] = b[2] /\ a[3] < b[3]

\* VersionReq::matches; an absent minor or patch of the comparator is -1.
MatchesCaret(c, v) ==
    IF v[1] # c[1] THEN FALSE
    ELSE IF c[2] = -1 THEN TRUE
    ELSE IF c[3] = -1 THEN (IF c[1] > 0 THEN v[2] >= c[2] ELSE v[2] = c[2])
    ELSE IF c[1] > 0 THEN (IF v[2] # c[2] THEN v[2] > c[2] ELSE v[3] >= c[3])
    ELSE IF c[2] > 0 THEN (IF v[2] # c[2] THEN FALSE ELSE v[3] >= c[3])
    ELSE v[2] = c[2] /\ v[3] = c[3]

MatchesTilde(c, v) ==
    IF v[1] # c[1] THEN FALSE
    ELSE IF c[2] # -1 /\ v[2] # c[2] THEN FALSE
    ELSE IF c[3] # -1 THEN v[3] >= c[3]
    ELSE TRUE

MatchesExact(c, v) ==
    /\ v[1] = c[1]
    /\ c[2] # -1 => v[2] = c[2]
    /\ c[3] # -1 => v[3] = c[3]

\* the comparator >=: an absent minor or patch counts as 0
MatchesGreaterEq(c, v) ==
    ~VerLess(v, <<c[1], IF c[2] = -1 THEN 0 ELSE c[2], IF c[3] = -1 THEN 0 ELSE c[3]>>)

Matches(constraint, v) ==
    CASE constraint.op = "^" -> MatchesCaret(constraint.ver, v)
      [] constraint.op = "~" -> MatchesTilde(constraint.ver, v)
      [] constraint.op = ">=" -> MatchesGreaterEq(constraint.ver, v)
      [] OTHER -> MatchesExact(constraint.ver, v)

(***************************************************************************)
(* Names                                                                   *)
(***************************************************************************)
Range(s) == {s[i] : i \in 1..Len(s)}
Contains(s, tok) == tok \in Range(s)
StartsWith(s, prefix) ==
    Len(s) >= Len(prefix) /\ SubSeq(s, 1, Len(prefix)) = prefix

\* position of the last tok in s, 0 when there is none
LastIndexOf(s, tok) ==
    LET at == {i \in 1..Len(s) : s[i] = tok}
    IN  IF at = {} THEN 0 ELSE CHOOSE i \in at : \A j \in at : j <= i

FirstIndexOf(s, tok) ==
    LET at == {i \in 1..Len(s) : s[i] = tok}
    IN  IF at = {} THEN 0 ELSE CHOOSE i \in at : \A j \in at : i <= j

\* s.split('/').last(): what follows the last '/', the whole of s when it has none
LastSegment(s) == SubSeq(s, LastIndexOf(s, "/") + 1, Len(s))

COMPOSER == <<"composer">>

(***************************************************************************)
(* resolver.rs: ToolIdentifier and parse_identifier                        *)
(***************************************************************************)
ToolIdentifier(name, constraint, version) ==
    [name |-> name, version_constraint |-> constraint, version |-> version]

\* a parse that rejects what is neither "latest" nor a range
parse_identifier_strict(raw) ==
    IF Len(raw.ats) = 0
    THEN [ok |-> TRUE, err |-> "", id |-> ToolIdentifier(raw.name, None, None)]
    ELSE IF Len(raw.ats) = 1 /\ raw.ats[1] = LATEST
    THEN [ok |-> TRUE, err |-> "", id |-> ToolIdentifier(raw.name, None, Some(LATEST))]
    ELSE IF Len(raw.ats) = 1 /\ VersionReqParse(raw.ats[1]).ok
    THEN [ok |-> TRUE, err |-> "",
          id |-> ToolIdentifier(raw.name, Some(VersionReqParse(raw.ats[1]).val), None)]
    ELSE [ok |-> FALSE, err |-> "InvalidToolIdentifier", id |-> ToolIdentifier(raw.name, None, None)]

\* a parse that keeps the text of a range as the exact version too
parse_identifier_keeping_text(raw) ==
    IF Len(raw.ats) = 0
    THEN [ok |-> TRUE, err |-> "", id |-> ToolIdentifier(raw.name, None, None)]
    ELSE IF Len(raw.ats) = 1
    THEN [ok |-> TRUE, err |-> "",
          id |-> ToolIdentifier(raw.name,
                                IF raw.ats[1] # LATEST /\ VersionReqParse(raw.ats[1]).ok
                                THEN Some(VersionReqParse(raw.ats[1]).val) ELSE None,
                                Some(raw.ats[1]))]
    ELSE [ok |-> FALSE, err |-> "InvalidToolIdentifier", id |-> ToolIdentifier(raw.name, None, None)]

\* The raw identifier is its name and the segments that follow each '@'.
parse_identifier(raw) ==
    IF Len(raw.ats) = 0
    THEN [ok |-> TRUE, err |-> "", id |-> ToolIdentifier(raw.name, None, None)]
    ELSE IF Len(raw.ats) = 1
    THEN LET version_str == raw.ats[1]
             req == VersionReqParse(version_str)
         IN  IF version_str = LATEST
             THEN [ok |-> TRUE, err |-> "", id |-> ToolIdentifier(raw.name, None, Some(LATEST))]
             ELSE IF req.ok
             THEN [ok |-> TRUE, err |-> "", id |-> ToolIdentifier(raw.name, Some(req.val), None)]
             ELSE [ok |-> TRUE, err |-> "", id |-> ToolIdentifier(raw.name, None, Some(version_str))]
    ELSE [ok |-> FALSE, err |-> "InvalidToolIdentifier", id |-> ToolIdentifier(raw.name, None, None)]

(***************************************************************************)
(* resolver.rs: version selection                                          *)
(***************************************************************************)
NoVersion == Lit("")
VersionOk(v) == [ok |-> TRUE, val |-> v, err |-> ""]
VersionErr == [ok |-> FALSE, val |-> NoVersion, err |-> "VersionConstraint"]

\* The decimal digits of a version number below 100.
Digits(n) == IF n < 10 THEN <<n>> ELSE <<n \div 10, n % 10>>
\* x before y as text: at the first place they differ, or x a proper prefix of y
DigitsLess(x, y) ==
    \E i \in 1..(Len(x) + 1) :
        /\ \A j \in 1..(i - 1) : j <= Len(y) /\ x[j] = y[j]
        /\ i <= Len(y)
        /\ i <= Len(x) => x[i] < y[i]
\* the order of the versions' texts ("1.10.0" before "1.9.0")
TextLess(a, b) ==
    \/ DigitsLess(Digits(a[1]), Digits(b[1]))
    \/ a[1] = b[1] /\ DigitsLess(Digits(a[2]), Digits(b[2]))
    \/ a[1] = b[1] /\ a[2] = b[2] /\ DigitsLess(Digits(a[3]), Digits(b[3]))

\* the candidates sorted as strings, not as versions
RECURSIVE sort_reverse_as_text(_)
sort_reverse_as_text(S) ==
    IF S = {} THEN <<>>
    ELSE LET m == CHOOSE x \in S : \A y \in S \ {x} : TextLess(y, x)
         IN  <<m>> \o sort_reverse_as_text(S \ {m})

\* candidate_versions.sort(); candidate_versions.reverse()
RECURSIVE sort_reverse(_)
sort_reverse(S) ==
    IF S = {} THEN <<>>
    ELSE LET m == CHOOSE x \in S : \A y \in S \ {x} : VerLess(y, x)
         IN  <<m>> \o sort_reverse(S \ {m})

\* index of the first element of the sequence that the constraint matches, 0 if none
FirstMatching(constraint, candidates) ==
    LET at == {i \in 1..Len(candidates) : Matches(constraint, candidates[i])}
    IN  IF at = {} THEN 0 ELSE CHOOSE i \in at : \A j \in at : i <= j

\* versions: the registry's map of version key -> version info
find_matching_version(versions, identifier) ==
    LET parsed == {VersionParse(k).val : k \in {k \in DOMAIN versions : VersionParse(k).ok}}
    IN  Bind(sort_reverse(parsed), LAMBDA candidate_versions :
          IF IsSome(identifier.version_constraint)
          THEN LET i == FirstMatching(Unwrap(identifier.version_constraint),
                                      candidate_versions)
               IN  IF i > 0 THEN VersionOk(VersionToString(candidate_versions[i]))
                   ELSE VersionErr
          ELSE IF identifier.version = Some(LATEST)
          THEN IF Len(candidate_versions) > 0
               THEN VersionOk(VersionToString(candidate_versions[1])) ELSE VersionErr
          ELSE IF IsSome(identifier.version)
          THEN LET version_str == Unwrap(identifier.version)
                   version == VersionParse(version_str)
               IN  IF version.ok
                   THEN IF version.val \in Range(candidate_versions)
                        THEN VersionOk(VersionToString(version.val)) ELSE VersionErr
                   ELSE IF version_str \in DOMAIN versions
                   THEN VersionOk(version_str) ELSE VersionErr
          ELSE IF Len(candidate_versions) > 0
               THEN VersionOk(VersionToString(candidate_versions[1])) ELSE VersionErr)

\* Whether the loop of find_matching_github_release returns at this release, and
\* what it returns: the release itself, or releases.first().
ReleaseStep(releases, i, identifier) ==
    LET release == releases[i]
        version_str == trim_start_matches_v(release.tag_name)
        version == VersionParse(version_str)
    IN  IF IsSome(identifier.version_constraint)
        THEN IF version.ok /\ Matches(Unwrap(identifier.version_constraint), version.val)
             THEN Some(release) ELSE None
        ELSE IF identifier.version = Some(LATEST) THEN Some(releases[1])
        ELSE IF IsSome(identifier.version)
        THEN IF \/ release.tag_name = Unwrap(identifier.version)
                \/ release.tag_name = WithV(Unwrap(identifier.version))
             THEN Some(release) ELSE None
        ELSE Some(releases[1])

\* releases in the order the release-listing endpoint returned them
find_matching_github_release(releases, identifier) ==
    Bind({i \in 1..Len(releases) : IsSome(ReleaseStep(releases, i, identifier))},
         LAMBDA at :
           IF at = {} THEN None
           ELSE ReleaseStep(releases, CHOOSE i \in at : \A j \in at : i <= j, identifier))

(***************************************************************************)
(* resolver.rs: ResolvedTool and the results of a stage                    *)
(***************************************************************************)
ToolInfo(name, version, download_url, signature_url, hash) ==
    [name |-> name, version |-> version, download_url |-> download_url,
     signature_url |-> signature_url, hash |-> hash]
ComposerPackage(package, version, bin_names) ==
    [package |-> package, version |-> version, bin_names |-> bin_names]
Phar(tool_info) == [tag |-> "Phar", info |-> tool_info]
Composer(composer_pkg) == [tag |-> "Composer", pkg |-> composer_pkg]
NoTool == [tag |-> "None"]
ResolvedVersion(resolved) ==
    IF resolved.tag = "Phar" THEN resolved.info.version ELSE resolved.pkg.version

\* A remote request that was sent: the stage and what it asked for.
Contact(stage, target) == [stage |-> stage, target |-> target]
StageOk(tool, trace) == [ok |-> TRUE, tool |-> tool, err |-> "", trace |-> trace]
StageErr(err, trace) == [ok |-> FALSE, tool |-> NoTool, err |-> err, trace |-> trace]
\* the requests of an earlier part of the run come before those of res
After(trace, res) == [res EXCEPT !.trace = trace \o @]

(***************************************************************************)
(* resolver.rs: the registry stage                                         *)
(* pk[i] is the registry's answer to the i-th request of the stage:        *)
(* status "neterr" (send failed), "http_err" (not a success status),       *)
(* "bad_json" (the body does not decode) or "ok" with the versions map.    *)
(***************************************************************************)
\* the bare name asked before the conventional name/name
names_to_try_bare_first(identifier) ==
    IF Contains(identifier.name, "/")
    THEN <<identifier.name>>
    ELSE <<identifier.name, identifier.name \o <<"/">> \o identifier.name>>

names_to_try(identifier) ==
    IF Contains(identifier.name, "/")
    THEN <<identifier.name>>
    ELSE <<identifier.name \o <<"/">> \o identifier.name, identifier.name>>

\* the declared bin names kept as declared, directories included
zip_bin_names_as_declared(version_info, packagist_name) ==
    IF IsSome(version_info.bin) /\ Len(Unwrap(version_info.bin)) > 0
    THEN Unwrap(version_info.bin)
    ELSE <<LastSegment(packagist_name)>>

\* bin names of a "zip" distribution: the declared ones, or the package name's
\* last segment; each reduced to what follows its last '/'
zip_bin_names(version_info, packagist_name) ==
    LET bin_names ==
            IF IsSome(version_info.bin) /\ Len(Unwrap(version_info.bin)) > 0
            THEN Unwrap(version_info.bin)
            ELSE <<LastSegment(packagist_name)>>
    IN  [i \in 1..Len(bin_names) |-> LastSegment(bin_names[i])]

RECURSIVE PackagistLoop(_, _, _, _)
PackagistLoop(identifier, names, pk, i) ==
    IF i > Len(names) THEN StageErr("ToolNotFound", <<>>)
    ELSE
      LET packagist_name == names[i]
          sent == <<Contact("registry", packagist_name)>>
          response == pk[i]
          next == After(sent, PackagistLoop(identifier, names, pk, i + 1))
      IN  IF response.status = "neterr" THEN StageErr("Network", sent)
          ELSE IF response.status # "ok" THEN next
          ELSE
            Bind(find_matching_version(response.versions, identifier), LAMBDA found :
              IF ~found.ok THEN next
              ELSE
                LET version == found.val
                    version_info == response.versions[version]
                IN  CASE version_info.dist_type = "path" ->
                           StageOk(Phar(ToolInfo(identifier.name, version,
                                                 version_info.url, None, None)), sent)
                      [] version_info.dist_type = "zip" ->
                           StageOk(Composer(ComposerPackage(packagist_name, version,
                                      zip_bin_names(version_info, packagist_name))), sent)
                      [] OTHER -> next)

resolve_from_packagist(identifier, pk) ==
    PackagistLoop(identifier, names_to_try(identifier), pk, 1)

(***************************************************************************)
(* resolver.rs: the release-listing stage                                  *)
(***************************************************************************)
\* The words names are made of: lower case, first letter upper case, all upper
\* case, and the length in characters.
CaseTable ==
    { <<"composer", "Composer", "COMPOSER", 8>>, <<"rector", "Rector", "RECTOR", 6>>,
      <<"laravel", "Laravel", "LARAVEL", 7>>, <<"pint", "Pint", "PINT", 4>>,
      <<"php", "Php", "PHP", 3>>, <<"cs", "Cs", "CS", 2>>,
      <<"fixer", "Fixer", "FIXER", 5>>, <<"phpstan", "Phpstan", "PHPSTAN", 7>> }

\* the token with its first character in upper case
TitleTok(t) ==
    IF \E w \in CaseTable : w[1] = t
    THEN (CHOOSE w \in CaseTable : w[1] = t)[2] ELSE t
\* the token in upper case
UpperTok(t) ==
    IF \E w \in CaseTable : w[1] = t \/ w[2] = t
    THEN (CHOOSE w \in CaseTable : w[1] = t \/ w[2] = t)[3] ELSE t
TokLen(t) ==
    IF \E w \in CaseTable : t \in {w[1], w[2], w[3]}
    THEN (CHOOSE w \in CaseTable : t \in {w[1], w[2], w[3]})[4] ELSE 1

RECURSIVE SplitOn(_, _)
SplitOn(s, sep) ==
    LET i == FirstIndexOf(s, sep)
    IN  IF i = 0 THEN <<s>>
        ELSE <<SubSeq(s, 1, i - 1)>> \o SplitOn(SubSeq(s, i + 1, Len(s)), sep)

RECURSIVE JoinWith(_, _)
JoinWith(segs, sep) ==
    IF Len(segs) = 0 THEN <<>>
    ELSE IF Len(segs) = 1 THEN segs[1]
    ELSE segs[1] \o <<sep>> \o JoinWith(Tail(segs), sep)

RECURSIVE StrLen(_)
StrLen(s) == IF Len(s) = 0 THEN 0 ELSE TokLen(s[1]) + StrLen(Tail(s))

\* first character of the segment to upper case, the rest kept
TitleSeg(s) == IF Len(s) = 0 THEN s ELSE <<TitleTok(s[1])>> \o Tail(s)
\* a segment of at most 3 characters to upper case, any other as TitleSeg
AcronymSeg(s) ==
    IF StrLen(s) <= 3 THEN [i \in 1..Len(s) |-> UpperTok(s[i])] ELSE TitleSeg(s)

title_case(s) ==
    Bind(SplitOn(s, "-"), LAMBDA segs :
      JoinWith([i \in 1..Len(segs) |-> TitleSeg(segs[i])], "-"))
acronym_case(s) ==
    Bind(SplitOn(s, "-"), LAMBDA segs :
      JoinWith([i \in 1..Len(segs) |-> AcronymSeg(segs[i])], "-"))

\* name.split_once('/')
SplitOnce(name) ==
    LET i == FirstIndexOf(name, "/")
    IN  <<SubSeq(name, 1, i - 1), SubSeq(name, i + 1, Len(name))>>

github_owner_repo(name) ==
    IF Contains(name, "/") THEN SplitOnce(name) ELSE <<name, name>>

github_owner_repo_variants(name) ==
    LET out1 == <<github_owner_repo(name)>>
        ab == SplitOnce(name)
    IN  Bind(title_case(name), LAMBDA title :
        Bind(acronym_case(name), LAMBDA acronym :
        Bind(IF title = name THEN out1
             ELSE Append(out1, IF Contains(name, "/")
                               THEN <<title_case(ab[1]), title_case(ab[2])>>
                               ELSE <<title, title>>),
             LAMBDA out2 :
               IF acronym # name /\ (acronym # title \/ title = name)
               THEN Bind(IF Contains(name, "/")
                         THEN <<acronym_case(ab[1]), acronym_case(ab[2])>>
                         ELSE <<acronym, acronym>>,
                         LAMBDA upper :
                           IF upper \notin Range(out2) THEN Append(out2, upper) ELSE out2)
               ELSE out2)))

\* the repositories asked for one (owner, repo) pair, in order
repo_urls(pair) ==
    << pair[1] \o <<"/">> \o pair[2],
       pair[1] \o <<"/", "php", "-">> \o pair[2],
       <<"php", "-">> \o pair[1] \o <<"/">> \o pair[2] >>

RECURSIVE Flatten(_)
Flatten(seqs) == IF Len(seqs) = 0 THEN <<>> ELSE seqs[1] \o Flatten(Tail(seqs))

base_urls(name) ==
    Bind(github_owner_repo_variants(name), LAMBDA variants :
      Flatten([i \in 1..Len(variants) |-> repo_urls(variants[i])]))

\* assets.iter().find(|a| a.name.ends_with(ext)): its index, 0 if none
FindAsset(assets, exts) ==
    LET at == {i \in 1..Len(assets) : assets[i].ext \in exts}
    IN  IF at = {} THEN 0 ELSE CHOOSE i \in at : \A j \in at : i <= j

find_signature_url(assets) ==
    LET i == FindAsset(assets, {"asc", "sig"})
    IN  IF i = 0 THEN None ELSE Some(assets[i].browser_download_url)

\* gh[i] is the release-listing endpoint's answer to the i-th request of the stage:
\* status as for the registry, and, with "ok", the release list.
RECURSIVE GithubLoop(_, _, _, _)
GithubLoop(identifier, urls, gh, i) ==
    IF i > Len(urls) THEN StageErr("ToolNotFound", <<>>)
    ELSE
      LET sent == <<Contact("github", urls[i])>>
          response == gh[i]
          next == After(sent, GithubLoop(identifier, urls, gh, i + 1))
      IN  IF response.status \in {"neterr", "http_err"} THEN next
          ELSE IF response.status = "bad_json" THEN StageErr("Network", sent)
          ELSE
            Bind(find_matching_github_release(response.releases, identifier),
                 LAMBDA found :
              Bind(IF IsSome(found) THEN FindAsset(Unwrap(found).assets, {"phar"}) ELSE 0,
                   LAMBDA asset :
                IF asset = 0 THEN next
                ELSE
                  LET release == Unwrap(found)
                  IN  StageOk(Phar(ToolInfo(identifier.name,
                                            trim_start_matches_v(release.tag_name),
                                            release.assets[asset].browser_download_url,
                                            find_signature_url(release.assets), None)),
                              sent)))

resolve_from_github(identifier, gh) ==
    GithubLoop(identifier, base_urls(identifier.name), gh, 1)

(***************************************************************************)
(* resolver.rs: the direct-URL stage                                       *)
(* direct[i] is the status of the HEAD request to the i-th URL.            *)
(***************************************************************************)
direct_urls(name) ==
    LET pair == github_owner_repo(name)
        owner == pair[1]
        repo == pair[2]
        dir == owner \o <<"/">> \o repo \o <<"/", "releases/latest/download", "/">>
        \* identifier.name.replace('/', "-")
        dashed == [i \in 1..Len(name) |-> IF name[i] = "/" THEN "-" ELSE name[i]]
    IN  << dir \o repo \o <<".phar">>,
           dir \o owner \o <<"-">> \o repo \o <<".phar">>,
           dir \o dashed \o <<".phar">> >>

RECURSIVE DirectLoop(_, _, _, _)
DirectLoop(identifier, urls, direct, i) ==
    IF i > Len(urls) THEN StageErr("ToolNotFound", <<>>)
    ELSE
      LET sent == <<Contact("direct", urls[i])>>
      IN  IF direct[i] = "neterr" THEN StageErr("Network", sent)
          ELSE IF direct[i] = "ok"
          THEN StageOk(Phar(ToolInfo(identifier.name, LATEST, urls[i],
                                     Some(urls[i] \o <<".asc">>), None)), sent)
          ELSE After(sent, DirectLoop(identifier, urls, direct, i + 1))

resolve_from_direct_url(identifier, direct) ==
    DirectLoop(identifier, direct_urls(identifier.name), direct, 1)

(***************************************************************************)
(* resolver.rs: resolve_tool                                               *)
(* env is what the remote sources answer during one call: env.pk, env.gh   *)
(* and env.direct.                                                         *)
(***************************************************************************)
ComposerPharUrl == <<"getcomposer.org", "/", "download/latest-stable", "/", "composer", ".phar">>

\* a bootstrap URL that names the exact version asked for
resolve_builtin_composer_versioned(identifier) ==
    IF IsSome(identifier.version) /\ Unwrap(identifier.version) # LATEST
    THEN ToolInfo(COMPOSER, Unwrap(identifier.version),
                  <<"getcomposer.org", "/", "download", "/", "version", "/", "composer", ".phar">>,
                  None, None)
    ELSE ToolInfo(COMPOSER, LATEST, ComposerPharUrl, None, None)

resolve_builtin_composer(identifier) ==
    LET version == IF IsSome(identifier.version) /\ Unwrap(identifier.version) # LATEST
                   THEN Unwrap(identifier.version) ELSE LATEST
    IN  ToolInfo(COMPOSER, version, ComposerPharUrl, None, None)

\* the direct URLs tried for every identifier
use_direct_url_always(identifier) == TRUE

use_direct_url(identifier) ==
    /\ IsNone(identifier.version_constraint)
    /\ (IsSome(identifier.version) => Unwrap(identifier.version) = LATEST)

\* resolve_tool with the registry stage's error passed on (`?`) instead of dropped
resolve_tool_propagating(identifier, env) ==
    IF identifier.name = COMPOSER
    THEN StageOk(Phar(resolve_builtin_composer(identifier)), <<>>)
    ELSE
      Bind(resolve_from_packagist(identifier, env.pk), LAMBDA packagist :
        IF packagist.ok \/ packagist.err # "ToolNotFound" THEN packagist
        ELSE
          Bind(After(packagist.trace, resolve_from_github(identifier, env.gh)),
               LAMBDA github :
            IF github.ok THEN github
            ELSE IF use_direct_url(identifier)
            THEN Bind(After(github.trace,
                            resolve_from_direct_url(identifier, env.direct)),
                      LAMBDA direct :
                   IF direct.ok THEN direct
                   ELSE StageErr("ToolNotFound", direct.trace))
            ELSE StageErr("ToolNotFound", github.trace)))

resolve_tool(identifier, env) ==
    IF identifier.name = COMPOSER
    THEN StageOk(Phar(resolve_builtin_composer(identifier)), <<>>)
    ELSE
      Bind(resolve_from_packagist(identifier, env.pk), LAMBDA packagist :
        IF packagist.ok THEN packagist
        ELSE
          Bind(After(packagist.trace, resolve_from_github(identifier, env.gh)),
               LAMBDA github :
            IF github.ok THEN github
            ELSE IF use_direct_url(identifier)
            THEN Bind(After(github.trace,
                            resolve_from_direct_url(identifier, env.direct)),
                      LAMBDA direct :
                   IF direct.ok THEN direct
                   ELSE StageErr("ToolNotFound", direct.trace))
            ELSE StageErr("ToolNotFound", github.trace)))

(***************************************************************************)
(* Backing storage under the cache root                                    *)
(* A path is the file name's parts; fs maps the paths that exist to what   *)
(* is there: a file with its bytes, or an install directory with the       *)
(* names found in its vendor/bin.                                          *)
(***************************************************************************)
\* cache_dir.join(format!("{}-{}.phar", name, version))
PharPath(name, version) ==
    [root |-> "cache", stem |-> name \o <<"-">>, version |-> version, ext |-> ".phar"]

\* cache_dir.join("composer").join(format!("{}-{}", package.replace('/', "-"), version))
InstallDir(package, version) ==
    [root |-> "composer",
     stem |-> [i \in 1..Len(package) |-> IF package[i] = "/" THEN "-" ELSE package[i]]
              \o <<"-">>,
     version |-> version, ext |-> ""]

File(bytes) == [kind |-> "file", bytes |-> bytes, bins |-> {}]
Dir(bins) == [kind |-> "dir", bytes |-> <<>>, bins |-> bins]
NoFiles == [p \in {} |-> File(<<>>)]

Exists(files, path) == path \in DOMAIN files
Put(files, path, content) ==
    [p \in DOMAIN files \cup {path} |-> IF p = path THEN content ELSE files[p]]
Delete(files, paths) == [p \in DOMAIN files \ paths |-> files[p]]

\* metadata.len() and calculate_file_hash (md5 of the bytes, in hex)
FileLen(bytes) == Len(bytes)
calculate_file_hash(bytes) == <<"md5">> \o bytes

(***************************************************************************)
(* cache.rs: CacheEntry and CacheManager                                   *)
(* The map `entries` is a set of key/entry pairs.  A manager's state is    *)
(* the record S: its map (entries), the document cache.json (doc) and the  *)
(* backing storage (fs).                                                   *)
(***************************************************************************)
CacheEntry(tool_name, version, file_path, download_url, file_hash, created_at, last_accessed, size, bin_name, is_composer) ==
    [tool_name |-> tool_name, version |-> version, file_path |-> file_path,
     download_url |-> download_url, file_hash |-> file_hash, created_at |-> created_at,
     last_accessed |-> last_accessed, size |-> size, bin_name |-> bin_name,
     is_composer |-> is_composer]

\* format!("{}:{}", tool_name, version)
build_key(tool_name, version) == [text |-> tool_name \o <<":">>, ver |-> version]

Keys(entries) == {e.key : e \in entries}
EntryOf(entries, key) == (CHOOSE e \in entries : e.key = key).entry

\* HashMap::insert that keeps the old value next to the new one
insert_keeping_old(entries, key, entry) ==
    entries \cup {[key |-> key, entry |-> entry]}

\* HashMap::insert: the value under the key is replaced
insert(entries, key, entry) ==
    {e \in entries : e.key # key} \cup {[key |-> key, entry |-> entry]}

\* HashMap::remove
remove(entries, key) == {e \in entries : e.key # key}

save_cache(S) == [S EXCEPT !.doc = S.entries]
load_cache(S) == [S EXCEPT !.entries = S.doc]

\* get_entry: a found entry's last_accessed is set, in the map only
get_entry(S, t, tool_name, version) ==
    LET key == build_key(tool_name, version)
    IN  IF key \in Keys(S.entries)
        THEN LET entry == [EntryOf(S.entries, key) EXCEPT !.last_accessed = t]
             IN  [found |-> TRUE, entry |-> Some(entry),
                  S |-> [S EXCEPT !.entries =
                            {IF e.key = key THEN [e EXCEPT !.entry = entry] ELSE e : e \in @}]]
        ELSE [found |-> FALSE, entry |-> None, S |-> S]

add_entry_inner(S, t, tool_name, version, file_path, download_url, file_hash, size, bin_name, is_composer) ==
    LET entry == CacheEntry(tool_name, version, file_path, download_url, file_hash,
                            t, t, size, bin_name, is_composer)
        key == build_key(entry.tool_name, entry.version)
    IN  save_cache([S EXCEPT !.entries = insert(@, key, entry)])

add_entry(S, t, tool_name, version, file_path, download_url, file_hash, size) ==
    add_entry_inner(S, t, tool_name, version, file_path, download_url, file_hash, size,
                    None, FALSE)

add_composer_entry(S, t, tool_name, version, dir_path, bin_name) ==
    LET entry == CacheEntry(tool_name, version, dir_path, <<>>, None, t, t, 0,
                            Some(bin_name), TRUE)
        key == build_key(entry.tool_name, entry.version)
    IN  save_cache([S EXCEPT !.entries = insert(@, key, entry)])

\* remove_dir_all / remove_file of an entry's path; refused lists the paths the
\* file system does not let go of.  Nothing is asked when the path does not exist.
RemoveStorage(files, entry, refused) ==
    IF ~Exists(files, entry.file_path) THEN [ok |-> TRUE, fs |-> files]
    ELSE IF \/ entry.file_path \in refused
            \/ files[entry.file_path].kind # (IF entry.is_composer THEN "dir" ELSE "file")
    THEN [ok |-> FALSE, fs |-> files]
    ELSE [ok |-> TRUE, fs |-> Delete(files, {entry.file_path})]

\* the loop of remove_entry over keys_to_remove, in the order the map yields them
RECURSIVE RemoveKeys(_, _, _, _)
RemoveKeys(S, keys, i, refused) ==
    IF i > Len(keys) THEN [ok |-> TRUE, S |-> S]
    ELSE
      LET entry == EntryOf(S.entries, keys[i])
          gone == [S EXCEPT !.entries = remove(@, keys[i])]
          del == RemoveStorage(S.fs, entry, refused)
      IN  IF ~del.ok THEN [ok |-> FALSE, S |-> gone]
          ELSE RemoveKeys([gone EXCEPT !.fs = del.fs], keys, i + 1, refused)

\* the orders in which a map can yield the keys of K
RECURSIVE Orders(_)
Orders(K) ==
    IF K = {} THEN {<<>>}
    ELSE UNION {{<<k>> \o o : o \in Orders(K \ {k})} : k \in K}

\* a removal that takes every key that starts with the name
remove_entry_by_name_prefix(S, tool_name, version, order, refused) ==
    LET wanted ==
            IF IsSome(version)
            THEN {build_key(tool_name, Unwrap(version))} \cap Keys(S.entries)
            ELSE {k \in Keys(S.entries) : StartsWith(k.text, tool_name)}
        keys_to_remove == SelectSeq(order, LAMBDA k : k \in wanted)
    IN  Bind(RemoveKeys(S, keys_to_remove, 1, refused), LAMBDA removed :
          IF removed.ok THEN [ok |-> TRUE, S |-> save_cache(removed.S)]
          ELSE [ok |-> FALSE, S |-> removed.S])

\* remove_entry; order is the order in which the map yields its keys
remove_entry(S, tool_name, version, order, refused) ==
    LET wanted ==
            IF IsSome(version)
            THEN {build_key(tool_name, Unwrap(version))} \cap Keys(S.entries)
            ELSE {k \in Keys(S.entries) : StartsWith(k.text, tool_name \o <<":">>)}
        keys_to_remove == SelectSeq(order, LAMBDA k : k \in wanted)
    IN  Bind(RemoveKeys(S, keys_to_remove, 1, refused), LAMBDA removed :
          IF removed.ok THEN [ok |-> TRUE, S |-> save_cache(removed.S)]
          ELSE [ok |-> FALSE, S |-> removed.S])

\* an age test that also removes an entry whose age equals ttl
ExpiredAtTtl(entry, t, ttl) == t - entry.last_accessed >= ttl

\* now - entry.last_accessed > ttl on u64: when last_accessed is later than now
\* the subtraction overflows; a release build wraps to a number near 2^64
Expired(entry, t, ttl) ==
    IF entry.last_accessed <= t THEN t - entry.last_accessed > ttl ELSE TRUE
Overflows(entries, t) == \E e \in entries : e.entry.last_accessed > t

\* a sweep that keeps the entries of which the storage could not be deleted
cleanup_old_entries_keeping_undeleted(S, t, ttl, refused) ==
    LET keys_to_remove ==
            {e.key : e \in {x \in S.entries : /\ Expired(x.entry, t, ttl)
                                               /\ RemoveStorage(S.fs, x.entry, refused).ok}}
    IN  save_cache([S EXCEPT !.entries = {e \in @ : e.key \notin keys_to_remove},
                             !.fs = Delete(@, {e.entry.file_path :
                                                 e \in {x \in S.entries :
                                                           x.key \in keys_to_remove}})])

\* cleanup_old_entries (without overflow checks): failures to delete are ignored
cleanup_old_entries(S, t, ttl, refused) ==
    LET keys_to_remove == {e.key : e \in {x \in S.entries : Expired(x.entry, t, ttl)}}
        deleted ==
            {e.entry.file_path : e \in {x \in S.entries :
                /\ x.key \in keys_to_remove
                /\ RemoveStorage(S.fs, x.entry, refused).ok}}
    IN  save_cache([S EXCEPT !.entries = {e \in @ : e.key \notin keys_to_remove},
                             !.fs = Delete(@, deleted)])

(***************************************************************************)
(* executor.rs, composer.rs and runner.rs                                  *)
(* What lies outside the program during one invocation is the record w:    *)
(*   w.system   what the host offers: "composer" (on the PATH), "vendor"   *)
(*              (the project's vendor/bin holds the tool), and the paths   *)
(*              at which an interpreter is found: "php" (on the PATH),     *)
(*              "/usr/bin/php", ...                                        *)
(*   w.php      the interpreter asked for: --php, else default_php_path    *)
(*   w.env1     the remote sources' answers to the version query           *)
(*   w.env2     their answers to the resolution that follows               *)
(*   w.fetch    the bytes a download returns, None when it fails           *)
(*   w.install  how `composer install` ends: "ok", "fail", or "nobin"      *)
(*              (success without the expected vendor/bin entry)            *)
(*   w.code     the exit code of the executed tool, None when a signal     *)
(*              ended it                                                   *)
(*   w.project  the PHP constraint of the composer.json found from the     *)
(*              current directory upwards, None when there is none         *)
(*   w.php_version  what the interpreter reports as PHP_VERSION, cut to    *)
(*              its digits and dots; None when it reports nothing          *)
(*   w.order    the order in which the map yields its keys                 *)
(*   w.refused  the paths the file system refuses to delete                *)
(***************************************************************************)
Config(cache_ttl, skip_verify) ==
    [cache_ttl |-> cache_ttl, skip_verify |-> skip_verify, default_php_path |-> None]

\* the outcome of an invocation: how it ended and what it executed
Outcome(status, err, from, path, version) ==
    [status |-> status, err |-> err, from |-> from, path |-> path, version |-> version,
     code |-> 0, rejected |-> FALSE, resolves |-> 0, looked |-> None, added |-> None,
     install |-> None, asked |-> 0, unverified |-> FALSE, php |-> None,
     warned |-> FALSE]
Failed(err) == Outcome("err", err, "none", None, None)

\* the fixed list find_php_binary and find_php_for_composer go through
possible_paths == <<"php", "/usr/bin/php", "/usr/local/bin/php">>

\* lines 158-173: the first path of the list on which `--version` runs
first_working(w) ==
    IF \E i \in 1..Len(possible_paths) : possible_paths[i] \in w.system
    THEN [ok |-> TRUE,
          path |-> Some(possible_paths[CHOOSE i \in 1..Len(possible_paths) :
                          /\ possible_paths[i] \in w.system
                          /\ \A j \in 1..(i - 1) : possible_paths[j] \notin w.system])]
    ELSE [ok |-> FALSE, path |-> None]

\* Executor::find_php_binary: the given path when it exists, an error when it is
\* given and does not exist, else the search of the list
find_php_binary(custom_path, w) ==
    IF IsSome(custom_path)
    THEN IF Unwrap(custom_path) \in w.system THEN [ok |-> TRUE, path |-> custom_path]
         ELSE [ok |-> FALSE, path |-> None]
    ELSE first_working(w)

\* composer.rs find_php_for_composer: the same search
find_php_for_composer(php_path, w) == find_php_binary(php_path, w)

\* Executor::php_version_matches_constraint; the empty text is Lit("")
php_version_matches_constraint(version, constraint) ==
    IF constraint = Lit("") THEN TRUE
    ELSE IF VersionReqParse(constraint).ok /\ VersionParse(version).ok
    THEN Matches(VersionReqParse(constraint).val, VersionParse(version).val)
    ELSE IF VersionParse(constraint).ok /\ VersionParse(version).ok
    THEN ~VerLess(VersionParse(version).val, VersionParse(constraint).val)
    ELSE FALSE

\* executor.rs lines 55-68: with no interpreter given, the project's constraint
\* is compared with the interpreter's version and a mismatch is logged
warns(w) ==
    /\ ~IsSome(w.php)
    /\ IsSome(w.project) /\ Unwrap(w.project) # Lit("")
    /\ IsSome(w.php_version)
    /\ ~php_version_matches_constraint(Unwrap(w.php_version), Unwrap(w.project))

\* execute_phar / execute_script: find_php_binary, the comparison with the
\* project's constraint, then the child's exit status; status.code() is None
\* when a signal ended the child
execute(from, path, version, w) ==
    LET php_binary == find_php_binary(w.php, w)
    IN  IF ~php_binary.ok THEN Failed("Execution")
        ELSE IF w.code = Some(0)
        THEN [Outcome("ok", "", from, Some(path), version)
                 EXCEPT !.php = php_binary.path, !.warned = warns(w)]
        ELSE [Outcome("err", "ExecutionFailed", from, Some(path), version)
                 EXCEPT !.code = IF IsSome(w.code) THEN Unwrap(w.code) ELSE 1,
                        !.php = php_binary.path, !.warned = warns(w)]

\* php started on a cached path: it exits with 1 when the path is not there
execute_cached(files, cache_entry, w) ==
    IF find_php_binary(w.php, w).ok /\ ~Exists(files, cache_entry.file_path)
    THEN [Outcome("err", "ExecutionFailed", "cache", Some(cache_entry.file_path),
                  Some(cache_entry.version))
             EXCEPT !.code = 1, !.php = find_php_binary(w.php, w).path,
                    !.warned = warns(w)]
    ELSE execute("cache", cache_entry.file_path, Some(cache_entry.version), w)

\* a lookup in the project's vendor/bin only
find_local_tool_in_project(tool_name, w) ==
    IF "vendor" \in w.system THEN Some(<<"vendor/bin">> \o tool_name) ELSE None

\* find_local_tool: ./vendor/bin/<name>, then ~/.composer/vendor/bin/<name>
find_local_tool(tool_name, w) ==
    IF "vendor" \in w.system THEN Some(<<"vendor/bin">> \o tool_name)
    ELSE IF "global" \in w.system THEN Some(<<"~/.composer/vendor/bin">> \o tool_name)
    ELSE None

\* get_tool_version: the identifier's exact version, else what resolve_tool finds
get_tool_version(identifier, env) ==
    IF IsSome(identifier.version)
    THEN [version |-> identifier.version, resolves |-> 0, asked |-> 0]
    ELSE Bind(resolve_tool(identifier, env), LAMBDA resolved :
           [version |-> IF resolved.ok THEN Some(ResolvedVersion(resolved.tool)) ELSE None,
            resolves |-> 1, asked |-> Len(resolved.trace)])

\* a verification that looks at the existence of the path only
verify_cached_tool_by_existence(files, cache_entry, skip) ==
    skip \/ Exists(files, cache_entry.file_path)

verify_cached_tool(files, cache_entry, skip) ==
    IF skip THEN TRUE
    ELSE IF ~Exists(files, cache_entry.file_path) THEN FALSE
    ELSE IF cache_entry.is_composer
    THEN (IF IsSome(cache_entry.bin_name) THEN Unwrap(cache_entry.bin_name) ELSE <<"tool">>)
            \in files[cache_entry.file_path].bins
    ELSE IF files[cache_entry.file_path].kind # "file" THEN FALSE
    ELSE IF FileLen(files[cache_entry.file_path].bytes) # cache_entry.size THEN FALSE
    ELSE IF IsSome(cache_entry.file_hash) /\ Unwrap(cache_entry.file_hash) # <<>>
    THEN calculate_file_hash(files[cache_entry.file_path].bytes) = Unwrap(cache_entry.file_hash)
    ELSE TRUE

\* a lookup that treats every request as one for any version
wants_any_version(identifier) == FALSE

\* run_tool, lines 96-100: a range, or an exact version other than "latest"
user_wants_specific_version(identifier) ==
    \/ IsSome(identifier.version_constraint)
    \/ (IsSome(identifier.version) /\ Unwrap(identifier.version) # LATEST)

\* run_tool, lines 88-126: the cache lookup.  hit says a cached artifact is to be run.
cache_lookup(S, t, identifier, flags, config, env) ==
    LET miss == [hit |-> FALSE, S |-> S, entry |-> None, rejected |-> FALSE,
                 unverified |-> FALSE, resolves |-> 0, asked |-> 0, looked |-> None]
        entry_owned(queried, got) ==
            LET seen == [miss EXCEPT !.resolves = queried.resolves,
                                     !.asked = queried.asked, !.S = got.S,
                                     !.looked = Some(build_key(identifier.name,
                                                               Unwrap(queried.version)))]
            IN  IF ~got.found THEN seen
                ELSE IF user_wants_specific_version(identifier)
                        /\ Unwrap(got.entry).version = LATEST
                THEN [seen EXCEPT !.rejected = TRUE]
                ELSE IF verify_cached_tool(got.S.fs, Unwrap(got.entry),
                                           flags.skip_verify \/ config.skip_verify)
                THEN [seen EXCEPT !.hit = TRUE, !.entry = got.entry]
                ELSE [seen EXCEPT !.unverified = TRUE]
    IN  IF flags.no_cache THEN miss
        ELSE Bind(get_tool_version(identifier, env), LAMBDA queried :
               IF IsNone(queried.version)
               THEN [miss EXCEPT !.resolves = queried.resolves, !.asked = queried.asked]
               ELSE Bind(get_entry(S, t, identifier.name, Unwrap(queried.version)),
                         LAMBDA got : entry_owned(queried, got)))

\* download_and_cache_tool: download_file, then add_entry
\* a download that records its entry before it has the file
download_and_cache_tool_entry_first(S, t, tool_info, skip_verify, w) ==
    LET cache_path == PharPath(tool_info.name, tool_info.version)
        bytes == IF IsSome(w.fetch) THEN Unwrap(w.fetch) ELSE <<>>
        recorded == add_entry(S, t, tool_info.name, tool_info.version, cache_path,
                              tool_info.download_url, Some(<<>>), FileLen(bytes))
    IN  IF IsNone(w.fetch)
        THEN [ok |-> FALSE, err |-> "Network", S |-> recorded, path |-> cache_path]
        ELSE [ok |-> TRUE, err |-> "", path |-> cache_path,
              S |-> [recorded EXCEPT !.fs = Put(@, cache_path, File(bytes))]]

download_and_cache_tool(S, t, tool_info, skip_verify, w) ==
    LET cache_path == PharPath(tool_info.name, tool_info.version)
    IN  IF IsNone(w.fetch) THEN [ok |-> FALSE, err |-> "Network", S |-> S, path |-> cache_path]
        ELSE
          LET bytes == Unwrap(w.fetch)
              written == [S EXCEPT !.fs = Put(@, cache_path, File(bytes))]
              file_hash == IF skip_verify THEN None ELSE Some(calculate_file_hash(bytes))
          IN  [ok |-> TRUE, err |-> "", path |-> cache_path,
               S |-> add_entry(written, t, tool_info.name, tool_info.version, cache_path,
                               tool_info.download_url,
                               Some(IF IsSome(file_hash) THEN Unwrap(file_hash) ELSE <<>>),
                               FileLen(bytes))]

\* resolve_composer_binary: the cached composer.phar ("latest", then "stable"), then the PATH
resolve_composer_binary(S, t, w) ==
    LET usable(got) ==
            /\ got.found
            /\ Exists(S.fs, Unwrap(got.entry).file_path)
            /\ ~Unwrap(got.entry).is_composer
    IN  Bind(get_entry(S, t, COMPOSER, LATEST), LAMBDA latest :
          IF usable(latest) THEN [ok |-> TRUE, S |-> latest.S]
          ELSE Bind(get_entry(latest.S, t, COMPOSER, Lit("stable")), LAMBDA stable :
                 IF usable(stable) THEN [ok |-> TRUE, S |-> stable.S]
                 ELSE [ok |-> "composer" \in w.system, S |-> stable.S]))

\* an install that is taken to have worked when `composer install` exits with 0
install_ok_by_status(status_success, bin_exists) == status_success

\* lines 141-159: the exit status, then vendor_bin.exists()
install_ok(status_success, bin_exists) == status_success /\ bin_exists

\* ensure_composer_installed
ensure_composer_installed(S, t, pkg, w) ==
    LET install_dir == InstallDir(pkg.package, pkg.version)
        bin_name == IF Len(pkg.bin_names) > 0 THEN pkg.bin_names[1]
                    ELSE LastSegment(pkg.package)
        vendor_bin(files) == Exists(files, install_dir) /\ bin_name \in files[install_dir].bins
        \* ran: `composer install` was started; installed: and the entry was added
        result(ok, err, state, installed, ran) ==
            [ok |-> ok, err |-> err, S |-> state, path |-> install_dir,
             bin |-> bin_name, installed |-> installed, ran |-> ran,
             had |-> vendor_bin(S.fs)]
        \* lines 111-168, with the manager as resolve_composer_binary left it
        install(composer_binary) ==
            LET S1 == composer_binary.S
                created == IF Exists(S1.fs, install_dir) THEN S1
                           ELSE [S1 EXCEPT !.fs = Put(@, install_dir, Dir({}))]
                installed == [created EXCEPT !.fs =
                                 Put(@, install_dir, Dir(@[install_dir].bins \cup {bin_name}))]
            IN  IF ~composer_binary.ok
                THEN result(FALSE, "ComposerNotFound", S1, FALSE, FALSE)
                ELSE IF ~find_php_for_composer(w.php, w).ok
                THEN result(FALSE, "Execution", S1, FALSE, FALSE)
                ELSE IF Exists(S1.fs, install_dir) /\ S1.fs[install_dir].kind # "dir"
                THEN result(FALSE, "Io", S1, FALSE, FALSE)
                ELSE IF ~install_ok(w.install # "fail",
                                    w.install = "ok" \/ vendor_bin(created.fs))
                THEN result(FALSE, "ComposerInstallFailed", created, FALSE, TRUE)
                ELSE result(TRUE, "",
                            add_composer_entry(IF w.install = "nobin" THEN created
                                               ELSE installed,
                                               t, pkg.package, pkg.version, install_dir,
                                               bin_name),
                            TRUE, TRUE)
    IN  Bind(IF vendor_bin(S.fs) THEN get_entry(S, t, pkg.package, pkg.version)
             ELSE [found |-> FALSE, entry |-> None, S |-> S],
             LAMBDA got :
               IF /\ got.found
                  /\ Unwrap(got.entry).is_composer
                  /\ Unwrap(got.entry).file_path = install_dir
               THEN result(TRUE, "", got.S, FALSE, FALSE)
               ELSE Bind(resolve_composer_binary(got.S, t, w), install))

\* run_tool, lines 129-149: resolve, then download or install, then execute
resolve_and_run(S, t, identifier, flags, w) ==
    LET phar(tool_info) ==
            Bind(download_and_cache_tool(S, t, tool_info, flags.skip_verify, w),
                 LAMBDA downloaded :
                   IF ~downloaded.ok
                   THEN [S |-> downloaded.S, out |-> Failed(downloaded.err)]
                   ELSE [S |-> downloaded.S,
                         out |-> [execute("remote", downloaded.path,
                                          Some(tool_info.version), w)
                                     EXCEPT !.added = Some(build_key(tool_info.name,
                                                                     tool_info.version))]])
        composer(composer_pkg) ==
            Bind(ensure_composer_installed(S, t, composer_pkg, w),
                 LAMBDA ensured :
                   LET install == Some([dir |-> ensured.path, bin |-> ensured.bin,
                                        had |-> ensured.had, ran |-> ensured.ran])
                   IN  IF ~ensured.ok
                       THEN [S |-> ensured.S,
                             out |-> [Failed(ensured.err) EXCEPT !.install = install]]
                       ELSE [S |-> ensured.S,
                             out |-> [execute(IF ensured.installed THEN "remote"
                                              ELSE "installed",
                                              ensured.path, Some(composer_pkg.version), w)
                                         EXCEPT !.install = install,
                                                !.added =
                                                  IF ensured.installed
                                                  THEN Some(build_key(composer_pkg.package,
                                                                      composer_pkg.version))
                                                  ELSE None]])
        asking(resolved, ran) == [ran EXCEPT !.out.asked = Len(resolved.trace)]
    IN  Bind(resolve_tool(identifier, w.env2), LAMBDA resolved :
          IF ~resolved.ok THEN asking(resolved, [S |-> S, out |-> Failed(resolved.err)])
          ELSE IF resolved.tool.tag = "Phar"
          THEN asking(resolved, phar(resolved.tool.info))
          ELSE asking(resolved, composer(resolved.tool.pkg)))

\* run_tool
run_tool(S, t, raw, flags, config, host) ==
    LET \* line 65: --php first, else the configured default_php_path
        w == [host EXCEPT !.php = IF IsSome(flags.php) THEN flags.php
                                  ELSE config.default_php_path]
        parsed == parse_identifier(raw)
        identifier == parsed.id
        \* lines 88-149, with the manager as the cache-clear left it
        lookup_and_run(cleared) ==
            Bind(cache_lookup(cleared.S, t, identifier, flags, config, w.env1),
                 LAMBDA looked :
                   IF looked.hit
                   THEN [S |-> looked.S,
                         out |-> [execute_cached(looked.S.fs, Unwrap(looked.entry), w)
                                     EXCEPT !.resolves = looked.resolves,
                                            !.asked = looked.asked,
                                            !.looked = looked.looked]]
                   ELSE Bind(resolve_and_run(looked.S, t, identifier, flags, w),
                             LAMBDA fetched :
                               [S |-> fetched.S,
                                out |-> [fetched.out EXCEPT
                                            !.resolves = looked.resolves + 1,
                                            !.asked = @ + looked.asked,
                                            !.rejected = looked.rejected,
                                            !.unverified = looked.unverified,
                                            !.looked = looked.looked]]))
    IN  IF ~parsed.ok THEN [S |-> S, out |-> Failed(parsed.err)]
        ELSE IF ~flags.no_local /\ IsSome(find_local_tool(identifier.name, w))
        THEN [S |-> S,
              out |-> execute("local", Unwrap(find_local_tool(identifier.name, w)), None, w)]
        ELSE Bind(IF flags.clear_cache
                  THEN remove_entry(S, identifier.name, None, w.order, w.refused)
                  ELSE [ok |-> TRUE, S |-> S],
                  LAMBDA cleared :
                    IF ~cleared.ok THEN [S |-> cleared.S, out |-> Failed("Io")]
                    ELSE lookup_and_run(cleared))

(***************************************************************************)
(* The resolver's functions on drawn inputs (specification SpecResolve)    *)
(***************************************************************************)
MaxCandidates == 9    \* at most 3 (owner, repo) variants, 3 repositories each
MaxAts == 3           \* most '@' characters in a command-line identifier drawn

RECTOR == <<"rector">>
PINT == <<"laravel", "/", "pint">>
FIXER == <<"php", "-", "cs", "-", "fixer">>

\* what may follow the '@' of an identifier
VersionTexts ==
    { LATEST, Req("^", 1, 0, -1), Req("^", 2, 0, -1), Req("~", 1, 9, -1),
      Lit("dev-main"), WithV(Sem(1, 9, 0)) }

\* the identifiers parse_identifier produces for a name
ParsedIds(name) ==
    {parse_identifier([name |-> name, ats |-> <<>>]).id}
    \cup {parse_identifier([name |-> name, ats |-> <<t>>]).id : t \in VersionTexts}

\* and one whose exact version is a full semantic version
IdForms(name) == ParsedIds(name) \cup {ToolIdentifier(name, None, Some(Sem(1, 10, 0)))}

VersionKeys ==
    {Sem(1, 9, 0), Sem(1, 10, 0), Sem(2, 0, 0), Lit("dev-main"), WithV(Sem(1, 9, 0))}

DistUrl == <<"dist">>
VersionInfo(dist_type, bin) == [dist_type |-> dist_type, url |-> DistUrl, bin |-> bin]
BinDecls ==
    { None, Some(<<>>), Some(<<<<"bin", "/", "rector">>>>),
      Some(<<<<"pint">>, <<"builds", "/", "bin", "/", "pint">>>>) }
DistTypes == {"path", "zip", "tar"}

Asset(ext) == [ext |-> ext, browser_download_url |-> <<"asset", ext>>]
Release(tag_name, assets) == [tag_name |-> tag_name, assets |-> assets]
Tags ==
    {WithV(Sem(1, 9, 0)), WithV(Sem(1, 10, 0)), WithV(Sem(2, 0, 0)), Sem(1, 10, 0),
     Lit("dev-main")}
AssetLists == {<<>>, <<Asset("asc"), Asset("phar")>>}

\* release lists of at most n releases with different tags, in every order
RECURSIVE ReleaseLists(_)
ReleaseLists(n) ==
    IF n = 0 THEN {<<>>}
    ELSE LET shorter == ReleaseLists(n - 1)
         IN  shorter \cup
             { Append(l, Release(t, a)) :
                 l \in {s \in shorter : Len(s) = n - 1}, t \in Tags, a \in AssetLists }

DistinctTags(l) == \A i, j \in 1..Len(l) : l[i].tag_name = l[j].tag_name => i = j

PkResponse(status, versions) == [status |-> status, versions |-> versions]
GhResponse(status, releases) == [status |-> status, releases |-> releases]
\* every request is answered with `other`, but the at-th with `resp`
GhEnv(at, resp, other) == [i \in 1..MaxCandidates |-> IF i = at THEN resp ELSE other]

PkFailures == {PkResponse(s, <<>>) : s \in {"neterr", "http_err", "bad_json"}}
PkAnswers ==
    PkFailures \cup
    { PkResponse("ok", [k \in K |-> VersionInfo(d, None)]) :
        K \in {{Lit("dev-main")}, {Sem(1, 9, 0), Sem(1, 10, 0), Sem(2, 0, 0)}},
        d \in DistTypes }
PkSecondAnswers ==
    { PkResponse("neterr", <<>>), PkResponse("http_err", <<>>),
      PkResponse("ok", [k \in {Lit("dev-main")} |-> VersionInfo("path", None)]),
      PkResponse("ok", [k \in {Sem(1, 9, 0), Sem(1, 10, 0), Sem(2, 0, 0)} |->
                           VersionInfo("zip", None)]) }
GhAnswers ==
    { GhEnv(0, GhResponse("neterr", <<>>), GhResponse("neterr", <<>>)),
      GhEnv(0, GhResponse("http_err", <<>>), GhResponse("http_err", <<>>)),
      GhEnv(2, GhResponse("bad_json", <<>>), GhResponse("http_err", <<>>)),
      GhEnv(1, GhResponse("ok", <<Release(WithV(Sem(1, 10, 0)), <<>>)>>),
            GhResponse("ok", <<Release(WithV(Sem(1, 9, 0)), <<Asset("phar")>>)>>)),
      GhEnv(3, GhResponse("ok", <<Release(WithV(Sem(2, 0, 0)), <<Asset("phar")>>),
                                   Release(WithV(Sem(1, 10, 0)), <<Asset("phar")>>)>>),
            GhResponse("neterr", <<>>)) }
DirectAnswers ==
    { <<"http_err", "http_err", "http_err">>, <<"ok", "ok", "ok">>,
      <<"http_err", "neterr", "ok">>, <<"http_err", "http_err", "ok">> }

Env(pk, gh, direct) == [pk |-> pk, gh |-> gh, direct |-> direct]

FmvInputs ==
    { [kind |-> "fmv", id |-> id, versions |-> [k \in K |-> VersionInfo("path", None)]] :
        id \in IdForms(RECTOR), K \in SUBSET VersionKeys }
GhInputs ==
    { [kind |-> "gh", id |-> id, releases |-> l] :
        id \in IdForms(PINT), l \in {x \in ReleaseLists(MaxRel) : DistinctTags(x)} }
PkInputs ==
    { [kind |-> "pk", id |-> ToolIdentifier(n, None, None),
       pk |-> << PkResponse("ok", [k \in {Sem(1, 9, 0)} |-> VersionInfo(d, b)]), second >>] :
        n \in {RECTOR, PINT}, d \in DistTypes, b \in BinDecls,
        second \in { PkResponse("http_err", <<>>),
                     PkResponse("ok", [k \in {Sem(2, 0, 0)} |-> VersionInfo("zip", None)]) } }
\* what may stand between the '@' characters of a command-line identifier
ParseTexts == VersionTexts \cup {Sem(1, 10, 0), Lit("")}
RECURSIVE AtLists(_)
AtLists(n) ==
    IF n = 0 THEN {<<>>}
    ELSE LET shorter == AtLists(n - 1)
         IN  shorter \cup {Append(l, t) : l \in {x \in shorter : Len(x) = n - 1},
                                          t \in ParseTexts}
ParseInputs ==
    { [kind |-> "parse", raw |-> [name |-> n, ats |-> a]] :
        n \in {RECTOR, PINT}, a \in AtLists(MaxAts) }
ResolveInputs ==
    { [kind |-> "resolve", id |-> id, env |-> Env(<<p1, p2>>, g, d)] :
        id \in IdForms(RECTOR) \cup IdForms(PINT) \cup ParsedIds(COMPOSER),
        p1 \in PkAnswers, p2 \in PkSecondAnswers, g \in GhAnswers, d \in DirectAnswers }

\* the names of which the candidate repositories are listed
UrlInputs ==
    { [kind |-> "urls", name |-> n] :
        n \in {RECTOR, PINT, FIXER, COMPOSER, <<"php", "/", "cs">>,
                <<"Laravel", "/", "pint">>} }

NoResult == [fn |-> "none"]

\* the processes that can be launched
Procs == {1, 2}

InitRun ==
    /\ pc = [p \in Procs |-> "off"]
    /\ mem = [p \in Procs |-> {}]
    /\ doc = {}
    /\ fs = NoFiles
    /\ now = 0
    /\ last = [op |-> "none"]
    /\ torn = FALSE
    /\ job = [p \in Procs |-> None]

InitResolve ==
    /\ InitRun
    /\ q \in FmvInputs \cup GhInputs \cup PkInputs \cup ResolveInputs \cup ParseInputs
              \cup UrlInputs
    /\ r = NoResult

ApplyFindMatchingVersion ==
    /\ q.kind = "fmv" /\ r = NoResult
    /\ r' = [fn |-> "find_matching_version",
             out |-> find_matching_version(q.versions, q.id)]
    /\ UNCHANGED <<q, runVars>>

\* the release-listing stage when every candidate repository answers with q.releases
ApplyFindMatchingGithubRelease ==
    /\ q.kind = "gh" /\ r = NoResult
    /\ r' = [fn |-> "find_matching_github_release",
             out |-> find_matching_github_release(q.releases, q.id),
             stage |-> resolve_from_github(q.id,
                          GhEnv(0, GhResponse("ok", q.releases), GhResponse("ok", q.releases)))]
    /\ UNCHANGED <<q, runVars>>

ApplyResolveFromPackagist ==
    /\ q.kind = "pk" /\ r = NoResult
    /\ r' = [fn |-> "resolve_from_packagist", out |-> resolve_from_packagist(q.id, q.pk)]
    /\ UNCHANGED <<q, runVars>>

ApplyResolveTool ==
    /\ q.kind = "resolve" /\ r = NoResult
    /\ r' = [fn |-> "resolve_tool", out |-> resolve_tool(q.id, q.env)]
    /\ UNCHANGED <<q, runVars>>

\* the repositories resolve_from_github asks for a name, in order
ApplyBaseUrls ==
    /\ q.kind = "urls" /\ r = NoResult
    /\ r' = [fn |-> "base_urls", variants |-> github_owner_repo_variants(q.name),
             out |-> base_urls(q.name)]
    /\ UNCHANGED <<q, runVars>>

ApplyParseIdentifier ==
    /\ q.kind = "parse" /\ r = NoResult
    /\ r' = [fn |-> "parse_identifier", out |-> parse_identifier(q.raw)]
    /\ UNCHANGED <<q, runVars>>

NextResolve ==
    \/ ApplyParseIdentifier
    \/ ApplyFindMatchingVersion
    \/ ApplyFindMatchingGithubRelease
    \/ ApplyResolveFromPackagist
    \/ ApplyResolveTool
    \/ ApplyBaseUrls

SpecResolve == InitResolve /\ [][NextResolve]_vars

(***************************************************************************)
(* The program: launches of the command-line tool (specification Spec)     *)
(* main.rs / cli.rs: every launch builds a Runner (Runner::new), calls one *)
(* of its methods and exits.                                               *)
(***************************************************************************)
Ttl == 1              \* config.cache_ttl, in seconds
MaxEntries == 2       \* no launch is drawn that would leave more entries in the map

TheConfig == Config(Ttl, FALSE)

Phar1 == <<"phar1">>

\* what the remote sources can answer during one resolution
Published == [k \in {Sem(2, 0, 0)} |-> VersionInfo("zip", None)]
Released == <<Release(WithV(Sem(1, 10, 0)), <<Asset("phar")>>)>>
NoRegistry == <<PkResponse("http_err", <<>>), PkResponse("http_err", <<>>)>>
NoReleases == GhEnv(0, GhResponse("http_err", <<>>), GhResponse("http_err", <<>>))
NoDirect == <<"http_err", "http_err", "http_err">>
RegistryWorld == Env(<<PkResponse("ok", Published), PkResponse("ok", Published)>>,
                     NoReleases, NoDirect)
ReleaseWorld == Env(NoRegistry, GhEnv(1, GhResponse("ok", Released),
                                      GhResponse("http_err", <<>>)), NoDirect)
DeadWorld == Env(<<PkResponse("neterr", <<>>), PkResponse("neterr", <<>>)>>,
                 GhEnv(0, GhResponse("neterr", <<>>), GhResponse("neterr", <<>>)),
                 <<"neterr", "neterr", "neterr">>)
\* the registry is down while a release carries the version the registry publishes
Mirrored == <<Release(WithV(Sem(2, 0, 0)), <<Asset("phar")>>)>>
MirrorWorld == Env(NoRegistry, GhEnv(1, GhResponse("ok", Mirrored),
                                     GhResponse("http_err", <<>>)), NoDirect)
Worlds == {RegistryWorld, ReleaseWorld, MirrorWorld, DeadWorld}
\* the answers to the version query and to the resolution: the same world, or
\* the package reaching the registry in between
Answers == {<<x, x>> : x \in Worlds} \cup {<<ReleaseWorld, RegistryWorld>>}

\* the command lines drawn: tool identifiers and flags
RunNames == {COMPOSER, PINT, RECTOR}
RunIdentifiers ==
    {[name |-> n, ats |-> <<>>] : n \in RunNames}
    \cup {[name |-> n, ats |-> <<Req("^", 1, 0, -1)>>] : n \in {COMPOSER, PINT}}
    \cup {[name |-> PINT, ats |-> <<WithV(Sem(1, 10, 0))>>],
          [name |-> PINT, ats |-> <<LATEST, LATEST>>]}
Flags(clear_cache, no_cache, skip_verify, no_local) ==
    [clear_cache |-> clear_cache, no_cache |-> no_cache, skip_verify |-> skip_verify,
     no_local |-> no_local, php |-> None]
RunFlags ==
    { Flags(FALSE, FALSE, FALSE, FALSE), Flags(TRUE, FALSE, FALSE, FALSE),
      Flags(FALSE, TRUE, FALSE, FALSE), Flags(FALSE, FALSE, TRUE, FALSE),
      Flags(FALSE, FALSE, FALSE, TRUE) }
\* the host: php and composer on the PATH; the tool in ./vendor/bin or in
\* ~/.composer/vendor/bin
Bare == {"php", "composer"}
Systems == {Bare, Bare \cup {"vendor"}, Bare \cup {"global"}}
Endings == {"ok", "fail"}
\* `composer install` can also succeed without the expected vendor/bin entry
InstallEndings == Endings \cup {"nobin"}
\* the deletions the file system refuses, among those of paths
Refusals(paths) == {{}}

World(system, env1, env2, ending, order, refused) ==
    [system |-> system, env1 |-> env1, env2 |-> env2,
     fetch |-> IF ending = "ok" THEN Some(Phar1) ELSE None,
     install |-> ending, code |-> Some(0), order |-> order, refused |-> refused,
     php |-> None, project |-> None, php_version |-> None]

Init ==
    /\ InitRun
    /\ q = NoResult
    /\ r = NoResult

Manager(p) == [entries |-> mem[p], doc |-> doc, fs |-> fs]

\* Runner::new: the document is loaded, the expired entries are swept, the map is
\* saved.  A debug build panics on the overflowing subtraction.
New(p) ==
    /\ pc[p] = "off"
    /\ LET loaded == load_cache(Manager(p))
       IN  \E refused \in Refusals({e.entry.file_path : e \in loaded.entries}),
              build \in IF Overflows(loaded.entries, now) THEN {"debug", "release"}
                        ELSE {"release"} :
             IF build = "debug" /\ Overflows(loaded.entries, now)
             THEN /\ last' = [op |-> "new", at |-> now, status |-> "panic",
                              refused |-> refused, removed |-> {}]
                  /\ UNCHANGED <<pc, mem, doc, fs>>
             ELSE \E swept \in {cleanup_old_entries(loaded, now, TheConfig.cache_ttl,
                                                       refused)} :
                      /\ pc' = [pc EXCEPT ![p] = "ready"]
                      /\ mem' = [mem EXCEPT ![p] = swept.entries]
                      /\ doc' = swept.doc
                      /\ fs' = swept.fs
                      /\ last' = [op |-> "new", at |-> now, status |-> "ok",
                                  refused |-> refused,
                                  removed |-> Keys(loaded.entries) \ Keys(swept.entries)]
    /\ UNCHANGED <<now, q, r, torn, job>>

\* the remote answers matter only to the lookups that ask for them
AsksForVersion(raw, flags) ==
    /\ raw.name # COMPOSER
    /\ ~flags.no_cache
    /\ Len(raw.ats) = 1 => VersionReqParse(raw.ats[1]).ok /\ raw.ats[1] # LATEST

\* the inputs drawn for a command line: only those the run can observe
\* Flags, local copies and failing endings are drawn for bare names; a name with
\* a version is run with no flag on a host without local copies.
\* --skip-verify and --no-local are drawn with the bare name "composer" only,
\* the unscoped name with and without --clear-cache.
FlagsFor(raw) ==
    IF ~parse_identifier(raw).ok \/ Len(raw.ats) > 0 THEN {Flags(FALSE, FALSE, FALSE, FALSE)}
    ELSE IF raw.name = RECTOR
    THEN {Flags(FALSE, FALSE, FALSE, FALSE), Flags(TRUE, FALSE, FALSE, FALSE)}
    ELSE {f \in RunFlags : (f.skip_verify \/ f.no_local) => raw.name = COMPOSER}
\* the mirrored release is drawn for --no-cache only, the unscoped name with the
\* registry only
AnswersFor(raw, flags) ==
    IF raw.name = COMPOSER \/ ~parse_identifier(raw).ok THEN {<<DeadWorld, DeadWorld>>}
    ELSE IF raw.name = RECTOR THEN {<<RegistryWorld, RegistryWorld>>}
    ELSE IF flags.no_cache THEN {<<x, x>> : x \in Worlds}
    ELSE IF AsksForVersion(raw, flags) THEN Answers \ {<<MirrorWorld, MirrorWorld>>}
    ELSE {<<x, x>> : x \in Worlds \ {MirrorWorld}}
EndingsFor(raw, env) ==
    IF ~parse_identifier(raw).ok \/ Len(raw.ats) > 0 \/ raw.name = RECTOR THEN {"ok"}
    ELSE IF raw.name = COMPOSER THEN Endings
    ELSE IF env[2] = RegistryWorld THEN InstallEndings
    ELSE IF env[2] # DeadWorld THEN Endings
    ELSE {"ok"}
\* --no-local is drawn where the tool is in ./vendor/bin; the global location
\* with no flag
SystemsFor(raw, flags) ==
    IF ~parse_identifier(raw).ok \/ Len(raw.ats) > 0 \/ raw.name = RECTOR THEN {Bare}
    ELSE IF flags.no_local THEN {Bare \cup {"vendor"}}
    ELSE IF flags.clear_cache THEN {Bare, Bare \cup {"vendor"}}
    ELSE IF flags.no_cache \/ flags.skip_verify THEN {Bare}
    ELSE Systems

\* a run that ends in the local tool observes neither the remote sources nor
\* the ending of a download or an install: one of each is drawn for it
RunsLocal(raw, flags, system) ==
    parse_identifier(raw).ok /\ ~flags.no_local /\ system # Bare

\* the command lines drawn for the identifiers of ids
CommandLines(ids) == UNION {{<<raw, flags>> : flags \in FlagsFor(raw)} : raw \in ids}

\* Runner::run_tool on one of the command lines, then the process is about to exit
RunToolOn(p, lines) ==
    /\ pc[p] = "ready"
    /\ \E line \in lines :
       \E raw \in {line[1]} :
       \E flags \in {line[2]} :
       \E system \in SystemsFor(raw, flags) :
       \E env \in IF ~RunsLocal(raw, flags, system) THEN AnswersFor(raw, flags)
                  ELSE IF raw.name = COMPOSER THEN {<<DeadWorld, DeadWorld>>}
                  ELSE {<<RegistryWorld, RegistryWorld>>},
          order \in IF flags.clear_cache /\ ~RunsLocal(raw, flags, system)
                    THEN Orders({k \in Keys(mem[p]) :
                                    StartsWith(k.text, raw.name \o <<":">>)})
                    ELSE {<<>>},
          refused \in IF flags.clear_cache
                      THEN Refusals({e.entry.file_path : e \in mem[p]}) ELSE {{}} :
       \E ending \in IF RunsLocal(raw, flags, system) THEN {"ok"}
                     ELSE EndingsFor(raw, env) :
       \E ran \in {run_tool(Manager(p), now, raw, flags, TheConfig,
                              World(system, env[1], env[2], ending, order, refused))} :
               /\ Cardinality(ran.S.entries) <= MaxEntries
               /\ pc' = [pc EXCEPT ![p] = "done"]
               /\ mem' = [mem EXCEPT ![p] = ran.S.entries]
               /\ doc' = ran.S.doc
               /\ fs' = ran.S.fs
               /\ last' = [op |-> "run_tool", at |-> now, raw |-> raw, flags |-> flags,
                           system |-> system, ending |-> ending, out |-> ran.out]
    /\ UNCHANGED <<now, q, r, torn, job>>

RunTool(p) == RunToolOn(p, CommandLines(RunIdentifiers))

\* the process ends; its map is gone
Exit(p) ==
    /\ pc[p] = "done"
    /\ pc' = [pc EXCEPT ![p] = "off"]
    /\ mem' = [mem EXCEPT ![p] = {}]
    /\ last' = [op |-> "none"]
    /\ job' = [job EXCEPT ![p] = None]
    /\ UNCHANGED <<doc, fs, now, q, r, torn>>

\* a second passes between two launches; the clock is read by Runner::new and by
\* run_tool only, and a launch is taken to last less than a second
Tick ==
    /\ now < MaxTime
    /\ \A p \in Procs : pc[p] = "off"
    /\ now' = now + 1
    /\ UNCHANGED <<pc, mem, doc, fs, last, q, r, torn, job>>

\* between two launches something else deletes a cached file: drawn for the
\* files of "composer", one missing file at a time
Vanish ==
    /\ \A p \in Procs : pc[p] = "off"
    /\ \A e \in doc : Exists(fs, e.entry.file_path)
    /\ \E e \in doc : e.entry.tool_name = COMPOSER /\ fs' = Delete(fs, {e.entry.file_path})
    /\ last' = [op |-> "none"]
    /\ UNCHANGED <<pc, mem, doc, now, q, r, torn, job>>

\* the contents a cached path can be left with: a file of another length, a
\* file of the same length with other bytes, a directory without its vendor/bin
Damaged(content) ==
    IF content.kind = "file"
    THEN {File(<<>>), File([i \in 1..Len(content.bytes) |-> "other"])} \ {content}
    ELSE {Dir({})} \ {content}

\* between two launches something else rewrites a cached file or empties an
\* installation: drawn while every entry still verifies
Damage ==
    /\ \A p \in Procs : pc[p] = "off"
    /\ \A e \in doc : verify_cached_tool(fs, e.entry, FALSE)
    /\ \E e \in doc : \E content \in Damaged(fs[e.entry.file_path]) :
          fs' = Put(fs, e.entry.file_path, content)
    /\ last' = [op |-> "none"]
    /\ UNCHANGED <<pc, mem, doc, now, q, r, torn, job>>

Next ==
    \/ New(1)
    \/ RunTool(1)
    \/ Exit(1)
    \/ Tick
    \/ Vanish

Spec == Init /\ [][Next]_vars

\* launches on a cache that is damaged between them (specification SpecDamage):
\* the bare names "composer" (a cached file) and "laravel/pint" (an installation)
DamageLines ==
    {<<[name |-> n, ats |-> <<>>], Flags(FALSE, FALSE, FALSE, FALSE)>> : n \in {COMPOSER, PINT}}

NextDamage ==
    \/ New(1)
    \/ RunToolOn(1, DamageLines)
    \/ Exit(1)
    \/ Tick
    \/ Vanish
    \/ Damage

SpecDamage == Init /\ [][NextDamage]_vars

(***************************************************************************)
(* Launches that overlap (specification SpecShared)                        *)
(* Two processes share cache.json and the cache directory; nothing in      *)
(* cache.rs or runner.rs locks either.  A launch is taken apart at the     *)
(* instants at which it touches what is shared:                            *)
(*   Load     Runner::new reads cache.json (load_cache)                    *)
(*   Sweep    cleanup_old_entries deletes the expired storage, then        *)
(*            save_cache opens cache.json: std::fs::write creates the file *)
(*            anew, which truncates it                                     *)
(*   SaveEnd  the write of a save completes: the file holds the saver's    *)
(*            map, whole                                                   *)
(*   Work     run_tool up to the last save it begins, or up to the start   *)
(*            of the child when it saves nothing                           *)
(*   Finish   the child ends                                               *)
(*   Crash    the process is killed between the truncation and the write   *)
(* pc[p] is then also "loaded", "saving" (the save of Runner::new),        *)
(* "storing" (the save of run_tool) or "running" (the child executes).     *)
(* A write that completes after another one is taken to replace it whole.  *)
(***************************************************************************)
\* the command lines drawn: a cached file and an installation, plain, with
\* --clear-cache and with --no-cache
SharedLines ==
    {<<[name |-> n, ats |-> <<>>], f>> :
        n \in {COMPOSER, PINT},
        f \in {Flags(FALSE, FALSE, FALSE, FALSE), Flags(TRUE, FALSE, FALSE, FALSE),
               Flags(FALSE, TRUE, FALSE, FALSE)}}

\* the calls of save_cache in run_tool: the one that ends remove_entry and the
\* one that ends add_entry / add_composer_entry
saves(flags, out) == flags.clear_cache \/ IsSome(out.added)

\* load_cache: serde_json::from_str fails on an empty or partial document and
\* Runner::new returns the error
Load(p) ==
    /\ pc[p] = "off"
    /\ IF torn
       THEN /\ last' = [op |-> "new", at |-> now, status |-> "error",
                        refused |-> {}, removed |-> {}]
            /\ UNCHANGED <<pc, mem>>
       ELSE /\ pc' = [pc EXCEPT ![p] = "loaded"]
            /\ mem' = [mem EXCEPT ![p] = load_cache(Manager(p)).entries]
            /\ last' = [op |-> "none"]
    /\ UNCHANGED <<doc, fs, now, q, r, torn, job>>

Sweep(p) ==
    /\ pc[p] = "loaded"
    /\ \E swept \in {cleanup_old_entries(Manager(p), now, TheConfig.cache_ttl, {})} :
          /\ pc' = [pc EXCEPT ![p] = "saving"]
          /\ mem' = [mem EXCEPT ![p] = swept.entries]
          /\ fs' = swept.fs
          /\ torn' = TRUE
    /\ UNCHANGED <<doc, now, last, q, r, job>>

SaveEnd(p) ==
    /\ pc[p] \in {"saving", "storing"}
    /\ pc' = [pc EXCEPT ![p] = IF pc[p] = "saving" THEN "ready"
                                ELSE IF IsSome(job[p][1].artifact) THEN "running"
                                ELSE "done"]
    /\ doc' = save_cache(Manager(p)).doc
    /\ torn' = FALSE
    /\ UNCHANGED <<mem, fs, now, last, q, r, job>>

\* run_tool on a host with php and composer and no local tool, the remote
\* sources answering; the child is started when run_tool ends with one
Work(p) ==
    /\ pc[p] = "ready"
    /\ \E line \in SharedLines :
       \E raw \in {line[1]} :
       \E flags \in {line[2]} :
       \E env \in {IF raw.name = COMPOSER THEN DeadWorld ELSE RegistryWorld},
          order \in IF flags.clear_cache
                    THEN Orders({k \in Keys(mem[p]) :
                                    StartsWith(k.text, raw.name \o <<":">>)})
                    ELSE {<<>>} :
       \E ran \in {run_tool(Manager(p), now, raw, flags, TheConfig,
                              World(Bare, env, env, "ok", order, {}))} :
       \E artifact \in {IF ran.out.status = "ok" /\ IsSome(ran.out.path)
                           /\ Exists(ran.S.fs, Unwrap(ran.out.path))
                        THEN Some(ran.S.fs[Unwrap(ran.out.path)]) ELSE None} :
               /\ pc' = [pc EXCEPT ![p] = IF saves(flags, ran.out) THEN "storing"
                                           ELSE IF IsSome(artifact) THEN "running"
                                           ELSE "done"]
               /\ mem' = [mem EXCEPT ![p] = ran.S.entries]
               /\ fs' = ran.S.fs
               /\ torn' = (torn \/ saves(flags, ran.out))
               /\ job' = [job EXCEPT ![p] = Some([from |-> ran.out.from,
                                                   path |-> ran.out.path,
                                                   added |-> ran.out.added,
                                                   artifact |-> artifact])]
    /\ UNCHANGED <<doc, now, last, q, r>>

Finish(p) ==
    /\ pc[p] = "running"
    /\ pc' = [pc EXCEPT ![p] = "done"]
    /\ UNCHANGED <<mem, doc, fs, now, last, q, r, torn, job>>

\* the process is killed, or the machine stops, before the write of its save
Crash(p) ==
    /\ pc[p] \in {"saving", "storing"}
    /\ pc' = [pc EXCEPT ![p] = "off"]
    /\ mem' = [mem EXCEPT ![p] = {}]
    /\ job' = [job EXCEPT ![p] = None]
    /\ UNCHANGED <<doc, fs, now, last, q, r, torn>>

\* a second passes while a child executes
Wait ==
    /\ now < MaxTime
    /\ \A p \in Procs : pc[p] \in {"off", "running"}
    /\ \E p \in Procs : pc[p] = "running"
    /\ now' = now + 1
    /\ UNCHANGED <<pc, mem, doc, fs, last, q, r, torn, job>>

NextShared ==
    \/ \E p \in Procs : Load(p)
    \/ \E p \in Procs : Sweep(p)
    \/ \E p \in Procs : SaveEnd(p)
    \/ \E p \in Procs : Work(p)
    \/ \E p \in Procs : Finish(p)
    \/ \E p \in Procs : Exit(p)
    \/ \E p \in Procs : Crash(p)
    \/ Wait
    \/ Tick

SpecShared == Init /\ [][NextShared]_vars

(***************************************************************************)
(* composer.rs / runner.rs: override packages                              *)
(* The names of the override directory are modelled character by character: *)
(* a string is a sequence of one-character strings.  The directory `ov`    *)
(* maps a name to what is there: a directory (with or without its           *)
(* vendor/autoload.php, and with the requirement of its composer.json) or a *)
(* plain file.                                                              *)
(***************************************************************************)
\* package.replace('/', "-")
Slug(package) == [i \in 1..Len(package) |-> IF package[i] = "/" THEN "-" ELSE package[i]]

\* format!("{}-{}", slug, version)
OverrideDir(package, version) == Slug(package) \o <<"-">> \o version

OvDir(autoload, package, version) ==
    [kind |-> "dir", autoload |-> autoload, require |-> <<package, version>>]
OvFile == [kind |-> "file", autoload |-> FALSE, require |-> <<>>]

\* str::split(sep): the pieces between the separators, empty pieces included
RECURSIVE Split(_, _)
Split(str, sep) ==
    IF FirstIndexOf(str, sep) = 0 THEN <<str>>
    ELSE <<SubSeq(str, 1, FirstIndexOf(str, sep) - 1)>>
         \o Split(SubSeq(str, FirstIndexOf(str, sep) + 1, Len(str)), sep)

\* [..].join(sep)
RECURSIVE Join(_, _)
Join(parts, sep) ==
    IF Len(parts) = 0 THEN <<>>
    ELSE IF Len(parts) = 1 THEN parts[1]
    ELSE parts[1] \o <<sep>> \o Join(Tail(parts), sep)

\* str::replacen(from, to, 1)
ReplaceFirst(str, from, to) ==
    IF FirstIndexOf(str, from) = 0 THEN str
    ELSE [i \in 1..Len(str) |-> IF i = FirstIndexOf(str, from) THEN to ELSE str[i]]

\* char::is_ascii_digit
is_ascii_digit(c) == c \in {"0", "1", "2", "3", "4", "5", "6", "7", "8", "9"}

\* the order of the characters used, as in ASCII
CharRank(c) ==
    CASE c = "-" -> 45 [] c = "/" -> 47
      [] c = "0" -> 48 [] c = "1" -> 49 [] c = "2" -> 50 [] c = "3" -> 51 [] c = "4" -> 52
      [] c = "5" -> 53 [] c = "6" -> 54 [] c = "7" -> 55 [] c = "8" -> 56 [] c = "9" -> 57
      [] c = "a" -> 97 [] c = "b" -> 98 [] c = "c" -> 99 [] c = "r" -> 114
      [] c = "v" -> 118 [] OTHER -> 127

\* Ord for str: x before y
StrLess(x, y) ==
    \E i \in 1..(Len(x) + 1) :
        /\ \A j \in 1..(i - 1) : j <= Len(y) /\ x[j] = y[j]
        /\ i <= Len(y)
        /\ i <= Len(x) => CharRank(x[i]) < CharRank(y[i])

\* the decoding of one directory name by list_override_packages
DecodeOverride(name) ==
    LET parts == Split(name, "-")
        last_part == parts[Len(parts)]
    IN  IF Len(parts) < 2 THEN [package |-> name, version |-> <<>>, path |-> name]
        ELSE IF Len(last_part) > 0 /\ is_ascii_digit(last_part[1])
        THEN [package |-> ReplaceFirst(Join(SubSeq(parts, 1, Len(parts) - 1), "-"), "-", "/"),
              version |-> last_part, path |-> name]
        ELSE [package |-> ReplaceFirst(name, "-", "/"), version |-> <<>>, path |-> name]

\* out.sort_by(|a, b| a.0.cmp(&b.0).then(a.1.cmp(&b.1))); equal keys in any order
RECURSIVE SortListing(_)
SortListing(S) ==
    IF S = {} THEN <<>>
    ELSE LET least == CHOOSE x \in S : \A y \in S :
                         ~(\/ StrLess(y.package, x.package)
                           \/ y.package = x.package /\ StrLess(y.version, x.version))
         IN  <<least>> \o SortListing(S \ {least})

\* list_override_packages: the directories of ov, decoded and sorted
list_override_packages(ov) ==
    SortListing({DecodeOverride(name) : name \in {n \in DOMAIN ov : ov[n].kind = "dir"}})

\* remove_override_package: every directory named "<slug>-<rest>", with rest the
\* version when one is given, is removed
remove_override_package(ov, package, version) ==
    LET prefix == Slug(package) \o <<"-">>
        hit == {name \in DOMAIN ov :
                  /\ StartsWith(name, prefix)
                  /\ IsSome(version) =>
                        SubSeq(name, Len(prefix) + 1, Len(name)) = Unwrap(version)
                  /\ ov[name].kind = "dir"}
    IN  [ov |-> [name \in DOMAIN ov \ hit |-> ov[name]], removed |-> hit]

\* an override install that ignores what is already installed
ensure_override_installed_always(S, t, ov, package, version, w) ==
    [ok |-> TRUE, err |-> "", S |-> S,
     ov |-> [name \in DOMAIN ov \cup {OverrideDir(package, version)} |->
               IF name = OverrideDir(package, version) THEN OvDir(TRUE, package, version)
               ELSE ov[name]],
     path |-> OverrideDir(package, version), ran |-> TRUE]

\* ensure_override_installed; ran: `composer install` was started
ensure_override_installed(S, t, ov, package, version, w) ==
    LET install_dir == OverrideDir(package, version)
        result(ok, err, state, dirs, ran) ==
            [ok |-> ok, err |-> err, S |-> state, ov |-> dirs, path |-> install_dir,
             ran |-> ran]
        with(content) ==
            [name \in DOMAIN ov \cup {install_dir} |->
               IF name = install_dir THEN content ELSE ov[name]]
        \* create_dir_all, then composer.json is written
        created == IF install_dir \in DOMAIN ov /\ ov[install_dir].kind # "dir" THEN ov
                   ELSE with(OvDir(install_dir \in DOMAIN ov /\ ov[install_dir].autoload,
                                   package, version))
        install(composer_binary) ==
            IF ~composer_binary.ok
            THEN result(FALSE, "ComposerNotFound", composer_binary.S, ov, FALSE)
            ELSE IF ~find_php_for_composer(w.php, w).ok
            THEN result(FALSE, "Execution", composer_binary.S, ov, FALSE)
            ELSE IF install_dir \in DOMAIN ov /\ ov[install_dir].kind # "dir"
            THEN result(FALSE, "Io", composer_binary.S, ov, FALSE)
            ELSE IF w.install = "fail"
            THEN result(FALSE, "ComposerInstallFailed", composer_binary.S, created, TRUE)
            ELSE IF w.install = "nobin" /\ ~created[install_dir].autoload
            THEN result(FALSE, "ComposerInstallFailed", composer_binary.S, created, TRUE)
            ELSE result(TRUE, "", composer_binary.S,
                        IF w.install = "nobin" THEN created
                        ELSE with(OvDir(TRUE, package, version)), TRUE)
    IN  IF install_dir \in DOMAIN ov /\ ov[install_dir].kind = "dir"
           /\ ov[install_dir].autoload
        THEN result(TRUE, "", S, ov, FALSE)
        ELSE Bind(resolve_composer_binary(S, t, w), install)

(***************************************************************************)
(* The cache map and the override directory as functions of their inputs   *)
(* (specification SpecStore)                                                *)
(***************************************************************************)
\* two tools of which one name begins with the other
PHP == <<"php">>
PHPSTAN == <<"php", "stan">>

\* a file entry and a directory entry as add_entry and add_composer_entry record them
FileEntry(name, version) ==
    [key |-> build_key(name, version),
     entry |-> CacheEntry(name, version, PharPath(name, version), <<"url">>,
                          Some(calculate_file_hash(Phar1)), 0, 0, FileLen(Phar1), None,
                          FALSE)]
DirEntry(name, version) ==
    [key |-> build_key(name, version),
     entry |-> CacheEntry(name, version, InstallDir(name, version), <<>>, None, 0, 0, 0,
                          Some(LastSegment(name)), TRUE)]
EntryPool ==
    { FileEntry(PHP, Sem(1, 10, 0)), DirEntry(PHP, Sem(2, 0, 0)),
      FileEntry(PHPSTAN, Sem(1, 10, 0)), DirEntry(PHPSTAN, Sem(2, 0, 0)) }

\* a path of the cache root that belongs to no entry
StrayPath == PharPath(<<"stray">>, LATEST)

\* a manager whose map and document hold entries, with their storage but missing
StoreOf(entries, missing) ==
    [entries |-> entries, doc |-> entries,
     fs |-> [path \in ({e.entry.file_path : e \in entries} \ missing) \cup {StrayPath} |->
                IF path = StrayPath THEN File(Phar1)
                ELSE IF \E e \in entries : e.entry.file_path = path /\ e.entry.is_composer
                THEN Dir({<<"php">>, <<"stan">>})
                ELSE File(Phar1)]]

RemoveInputs ==
    { [kind |-> "remove", S |-> StoreOf(x[1], x[2]), name |-> n, version |-> v,
       order |-> x[3], refused |-> x[4]] :
        n \in {PHP, PHPSTAN},
        v \in {None, Some(Sem(1, 10, 0)), Some(Sem(2, 0, 0))},
        x \in UNION {
               {<<es, miss, o, rf>> :
                  miss \in {{}} \cup {{e.entry.file_path} : e \in es},
                  o \in Orders(Keys(es)),
                  rf \in {{}} \cup {{e.entry.file_path} : e \in {f \in es : f.entry.is_composer}}} :
               es \in SUBSET EntryPool} }

\* packages and versions of which the directory names share pieces
OvPackages == {<<"a", "/", "b">>, <<"a", "/", "b", "-", "c">>, <<"a", "-", "b", "/", "c">>}
OvVersions == {<<"1">>, <<"v", "1">>, <<"1", "-", "r">>}

\* the override directories left by installs of the pairs of a set
OvOf(pairs) ==
    [name \in {OverrideDir(x[1], x[2]) : x \in pairs} |->
       OvDir(TRUE, (CHOOSE x \in pairs : OverrideDir(x[1], x[2]) = name)[1],
                   (CHOOSE x \in pairs : OverrideDir(x[1], x[2]) = name)[2])]

\* sets of installs of which no two share a directory
OvStates ==
    {OvOf(pairs) : pairs \in {ps \in SUBSET (OvPackages \X OvVersions) :
                                \A x, y \in ps : OverrideDir(x[1], x[2]) = OverrideDir(y[1], y[2])
                                                     => x = y}}

\* the main cache of an override install: empty, or holding the composer phar
ComposerEntry == FileEntry(COMPOSER, LATEST)

EnsureInputs ==
    { [kind |-> "ensure", S |-> StoreOf(es, {}), ov |-> ov, package |-> pk,
       version |-> v, system |-> sy, ending |-> en] :
        es \in {{}, {ComposerEntry}, {ComposerEntry, DirEntry(PHP, Sem(2, 0, 0))}},
        pk \in {<<"a", "/", "b">>, <<"a", "-", "b", "/", "c">>},
        v \in OvVersions,
        ov \in { OvOf({}), OvOf({<<<<"a", "/", "b">>, <<"1">>>>}),
                 [name \in {<<"a", "-", "b", "-", "1">>} |->
                    OvDir(FALSE, <<"a", "/", "b">>, <<"1">>)],
                 [name \in {<<"a", "-", "b", "-", "1">>} |-> OvFile] },
        sy \in {Bare, {"php"}, {"composer"}},
        en \in InstallEndings }

ListInputs == {[kind |-> "list", ov |-> ov] : ov \in OvStates}

RemoveOverrideInputs ==
    { [kind |-> "remove_override", ov |-> ov, package |-> pk, version |-> v] :
        ov \in OvStates, pk \in OvPackages, v \in {None} \cup {Some(x) : x \in OvVersions} }

\* an entry last accessed at a given time
AccessedAt(e, at) == [e EXCEPT !.entry.last_accessed = at]
MaxClock == 3         \* the sweep is run at the times 0..MaxClock
LateAccess == 2       \* a last_accessed that is later than some of these times

\* maps of up to three entries last accessed at 0 or at LateAccess, swept at a
\* time of 0..MaxClock while the file system refuses some deletions
SweepInputs ==
    { [kind |-> "sweep", S |-> StoreOf(es, {}), t |-> t, refused |-> rf] :
        es \in { {AccessedAt(e, at[e]) : e \in pool} :
                   pool \in SUBSET (EntryPool \ {DirEntry(PHPSTAN, Sem(2, 0, 0))}),
                   at \in [EntryPool -> {0, LateAccess}] },
        t \in 0..MaxClock,
        rf \in SUBSET {FileEntry(PHP, Sem(1, 10, 0)).entry.file_path,
                        DirEntry(PHP, Sem(2, 0, 0)).entry.file_path} }

InitStore ==
    /\ InitRun
    /\ q \in RemoveInputs \cup EnsureInputs \cup ListInputs \cup RemoveOverrideInputs
              \cup SweepInputs
    /\ r = NoResult

\* CacheManager::remove_entry; clean_cache with a name calls it without a version
ApplyRemoveEntry ==
    /\ q.kind = "remove" /\ r = NoResult
    /\ r' = [fn |-> "remove_entry",
             out |-> remove_entry(q.S, q.name, q.version, q.order, q.refused)]
    /\ UNCHANGED <<q, runVars>>

\* ensure_override_installed at time 1, and what list_override_packages then reports
ApplyEnsureOverrideInstalled ==
    /\ q.kind = "ensure" /\ r = NoResult
    /\ \E ensured \in {ensure_override_installed(q.S, 1, q.ov, q.package, q.version,
                             World(q.system, DeadWorld, DeadWorld, q.ending, <<>>, {}))} :
          r' = [fn |-> "ensure_override_installed", out |-> ensured,
                listed |-> list_override_packages(ensured.ov)]
    /\ UNCHANGED <<q, runVars>>

ApplyListOverridePackages ==
    /\ q.kind = "list" /\ r = NoResult
    /\ r' = [fn |-> "list_override_packages", out |-> list_override_packages(q.ov)]
    /\ UNCHANGED <<q, runVars>>

ApplyRemoveOverridePackage ==
    /\ q.kind = "remove_override" /\ r = NoResult
    /\ r' = [fn |-> "remove_override_package",
             out |-> remove_override_package(q.ov, q.package, q.version)]
    /\ UNCHANGED <<q, runVars>>

\* cleanup_old_entries at time q.t; a debug build panics on the overflowing
\* subtraction, a release build wraps
ApplyCleanupOldEntries ==
    /\ q.kind = "sweep" /\ r = NoResult
    /\ \E build \in IF Overflows(q.S.entries, q.t) THEN {"debug", "release"}
                      ELSE {"release"} :
          r' = IF build = "debug" /\ Overflows(q.S.entries, q.t)
               THEN [fn |-> "cleanup_old_entries", status |-> "panic", out |-> q.S]
               ELSE [fn |-> "cleanup_old_entries", status |-> "ok",
                     out |-> cleanup_old_entries(q.S, q.t, Ttl, q.refused)]
    /\ UNCHANGED <<q, runVars>>

NextStore ==
    \/ ApplyRemoveEntry
    \/ ApplyCleanupOldEntries
    \/ ApplyEnsureOverrideInstalled
    \/ ApplyListOverridePackages
    \/ ApplyRemoveOverridePackage

SpecStore == InitStore /\ [][NextStore]_vars

(***************************************************************************)
(* main.rs: one launch of `phpx [--php <path>] composer` as a function of   *)
(* the configuration file, the host and the child (specification           *)
(* SpecLaunch)                                                             *)
(***************************************************************************)
\* config.rs Config::load on the file at the configuration path, which is
\* "absent", "unreadable", "malformed" (not the TOML of a ConfigFile), or "toml"
\* with the fields of a ConfigFile; Config::default() is TheConfig
Config_load(file) ==
    IF file.state = "absent" THEN [ok |-> TRUE, config |-> TheConfig]
    ELSE IF file.state \in {"unreadable", "malformed"}
    THEN [ok |-> FALSE, config |-> TheConfig]
    ELSE [ok |-> TRUE,
          config |-> [cache_ttl |-> IF IsSome(file.cache_ttl) THEN Unwrap(file.cache_ttl)
                                    ELSE TheConfig.cache_ttl,
                      skip_verify |-> IF IsSome(file.skip_verify)
                                      THEN Unwrap(file.skip_verify)
                                      ELSE TheConfig.skip_verify,
                      default_php_path |-> IF IsSome(file.default_php_path)
                                           THEN file.default_php_path
                                           ELSE TheConfig.default_php_path]]

\* Runner::new: the configuration, then the cache manager and its sweep
Runner_new(file, S, t) ==
    LET loaded == Config_load(file)
    IN  IF ~loaded.ok THEN [ok |-> FALSE, err |-> "Config", config |-> loaded.config, S |-> S]
        ELSE [ok |-> TRUE, err |-> "", config |-> loaded.config,
              S |-> cleanup_old_entries(load_cache(S), t, loaded.config.cache_ttl, {})]

\* a main that reports every error alike
main_reporting_every_error(out) ==
    IF out.status = "ok" THEN [exit |-> 0, printed |-> 0] ELSE [exit |-> 1, printed |-> 1]

\* main.rs lines 13-20 on the outcome of cli.execute(): the exit status of the
\* process and the number of "Error: ..." lines it prints
main(out) ==
    IF out.status = "ok" THEN [exit |-> 0, printed |-> 0]
    ELSE IF out.err = "ExecutionFailed" THEN [exit |-> out.code, printed |-> 0]
    ELSE [exit |-> 1, printed |-> 1]

\* Cli::execute for a tool: Runner::new, then run_tool_with_options
Cli_execute(file, S, t, raw, flags, w) ==
    Bind(Runner_new(file, S, t), LAMBDA runner :
      IF ~runner.ok THEN [S |-> runner.S, out |-> Failed(runner.err), config |-> runner.config]
      ELSE Bind(run_tool(runner.S, t, raw, flags, runner.config, w), LAMBDA ran :
             [S |-> ran.S, out |-> ran.out, config |-> runner.config]))

\* the ConfigFile of a well-formed file
ConfigFile(cache_ttl, skip_verify, default_php_path) ==
    [state |-> "toml", cache_ttl |-> cache_ttl, skip_verify |-> skip_verify,
     default_php_path |-> default_php_path]
\* a file that is not there, or of which no field is read
NoConfigFile(state) == [ConfigFile(None, None, None) EXCEPT !.state = state]
OptPhp == "/opt/php"
GonePhp == "/gone/php"
ConfigFiles ==
    { NoConfigFile("absent"), NoConfigFile("unreadable"), NoConfigFile("malformed"),
      ConfigFile(None, None, None),
      ConfigFile(Some(Ttl), Some(TRUE), Some(OptPhp)), ConfigFile(None, None, Some(GonePhp)) }
PhpOptions == {None, Some(OptPhp), Some(GonePhp)}
\* the interpreters of the host
Hosts ==
    { {}, {"php"}, {"/usr/bin/php"}, {"/usr/local/bin/php", OptPhp},
      {"php", "/usr/bin/php", OptPhp}, {OptPhp} }
\* how the child ends: an exit code, or None on a signal
ChildEndings == {Some(0), Some(1), Some(3), Some(255), None}

LaunchInputs ==
    { [kind |-> "launch", file |-> file, S |-> StoreOf(es, {}), php |-> php,
       system |-> sy, code |-> code, project |-> None, php_version |-> None] :
        file \in ConfigFiles, es \in {{}, {ComposerEntry}}, php \in PhpOptions,
        sy \in Hosts, code \in ChildEndings }

\* the PHP constraints of a project: none, empty, ranges, plain versions, and a
\* text that is neither
ProjectConstraints ==
    { None, Some(Lit("")), Some(Req("^", 8, 2, -1)), Some(Req(">=", 8, 1, -1)),
      Some(Req("~", 8, 2, 0)), Some(Sem(8, 2, 0)), Some(Sem(7, 4, 0)),
      Some(Lit("^8.1 || ^9.0")) }
\* what the interpreter reports
PhpVersions == {None, Some(Sem(7, 4, 33)), Some(Sem(8, 1, 0)), Some(Sem(8, 2, 0)),
                Some(Sem(8, 3, 0)), Some(Sem(9, 0, 0))}

\* launches of the cached tool in a project
ProjectInputs ==
    { [kind |-> "launch", file |-> NoConfigFile("absent"), S |-> StoreOf({ComposerEntry}, {}),
       php |-> php, system |-> {"php", OptPhp}, code |-> code, project |-> project,
       php_version |-> version] :
        php \in {None, Some(OptPhp)}, code \in {Some(0), Some(3)},
        project \in ProjectConstraints, version \in PhpVersions }

\* every form of identifier, for a launch that is repeated at once
TwiceInputs ==
    { [kind |-> "twice", raw |-> [name |-> n, ats |-> a], env |-> x] :
        n \in {COMPOSER, PINT, RECTOR},
        a \in { <<>>, <<LATEST>>, <<Req("^", 1, 0, -1)>>, <<Req("^", 2, 0, -1)>>,
                  <<Sem(1, 10, 0)>>, <<Sem(2, 0, 0)>>, <<WithV(Sem(1, 10, 0))>> },
        x \in {RegistryWorld, ReleaseWorld, MirrorWorld} }

InitLaunch ==
    /\ InitRun
    /\ q \in LaunchInputs \cup ProjectInputs \cup TwiceInputs
    /\ r = NoResult

\* `phpx [--php <path>] composer` at time 0, with no remote source reachable
Launch ==
    /\ q.kind = "launch" /\ r = NoResult
    /\ \E ran \in {Cli_execute(q.file, q.S, 0, [name |-> COMPOSER, ats |-> <<>>],
                                [Flags(FALSE, FALSE, FALSE, FALSE) EXCEPT !.php = q.php],
                                [World(q.system, DeadWorld, DeadWorld, "fail", <<>>, {})
                                    EXCEPT !.code = q.code, !.project = q.project,
                                           !.php_version = q.php_version])} :
          r' = [fn |-> "main", S |-> ran.S, out |-> ran.out, config |-> ran.config,
                end |-> main(ran.out)]
    /\ UNCHANGED <<q, runVars>>

\* `phpx <identifier>` on an empty cache and the same launch again at once: the
\* same remote answers, no configuration file, no local tool, nothing removed
LaunchTwice ==
    /\ q.kind = "twice" /\ r = NoResult
    /\ \E w \in {World(Bare, q.env, q.env, "ok", <<>>, {})} :
       \E first \in {Cli_execute(NoConfigFile("absent"), StoreOf({}, {}), 0, q.raw,
                                  Flags(FALSE, FALSE, FALSE, FALSE), w)} :
       \E second \in {Cli_execute(NoConfigFile("absent"), first.S, 0, q.raw,
                                   Flags(FALSE, FALSE, FALSE, FALSE), w)} :
          r' = [fn |-> "twice", first |-> first.out, between |-> first.S,
                second |-> second.out, S |-> second.S]
    /\ UNCHANGED <<q, runVars>>

NextLaunch ==
    \/ Launch
    \/ LaunchTwice

SpecLaunch == InitLaunch /\ [][NextLaunch]_vars

(***************************************************************************)
(* Properties of the resolver (checked under SpecResolve)                  *)
(***************************************************************************)
\* v is in S and no version of S is higher
Highest(S, v) == v \in S /\ \A w \in S : ~VerLess(v, w)
ParsedKeys(versions) ==
    {VersionParse(k).val : k \in {k \in DOMAIN versions : VersionParse(k).ok}}
Caret10 == [op |-> "^", ver |-> <<1, 0, -1>>]

\* C6: find_matching_version, over the published keys that parse as semantic
\* versions, returns for a range the highest version (in version order) that
\* satisfies it, for 'latest' or no version the highest parseable version, for an
\* exact literal that literal if it is a parsed version or a key of the map, and
\* fails otherwise; {1.9.0, 1.10.0, 2.0.0} with ^1.0 gives 1.10.0.
C6_HighestMatchingVersion ==
    r.fn = "find_matching_version" =>
      LET P == ParsedKeys(q.versions)
          out == r.out
          got == VersionParse(out.val)
      IN  /\ IF IsSome(q.id.version_constraint)
             THEN LET M == {v \in P : Matches(Unwrap(q.id.version_constraint), v)}
                  IN  /\ out.ok <=> M # {}
                      /\ out.ok => got.ok /\ Highest(M, got.val)
             ELSE IF IsNone(q.id.version) \/ q.id.version = Some(LATEST)
             THEN /\ out.ok <=> P # {}
                  /\ out.ok => got.ok /\ Highest(P, got.val)
             ELSE LET x == Unwrap(q.id.version)
                  IN  /\ out.ok <=> \/ VersionParse(x).ok /\ VersionParse(x).val \in P
                                    \/ x \in DOMAIN q.versions
                      /\ out.ok => out.val = x
          /\ ~out.ok => out.err = "VersionConstraint"
          /\ ( /\ DOMAIN q.versions = {Sem(1, 9, 0), Sem(1, 10, 0), Sem(2, 0, 0)}
               /\ q.id.version_constraint = Some(Caret10) )
             => out.val = Sem(1, 10, 0)

C6_Witness ==
    /\ r.fn = "find_matching_version"
    /\ DOMAIN q.versions = {Sem(1, 9, 0), Sem(1, 10, 0), Sem(2, 0, 0)}
    /\ q.id.version_constraint = Some(Caret10)
    /\ r.out.ok /\ r.out.val = Sem(1, 10, 0)

\* the version a release's tag denotes once its leading 'v' is stripped
TagVersion(release) == VersionParse(trim_start_matches_v(release.tag_name))

\* C7: whatever the order of the release list, the release selected is the one the
\* registry stage's policy selects among the tags with a leading 'v' stripped (the
\* highest version satisfying the range; the highest version for 'latest' or no
\* version; the tag equal to an exact literal), and the stage accepts the
\* repository only if that release has a .phar asset.  Stated here for the release
\* lists all of whose tags denote versions.
C7_ReleaseByRegistryPolicy ==
    (r.fn = "find_matching_github_release" /\ \A x \in Range(q.releases) : TagVersion(x).ok) =>
      LET rels == Range(q.releases)
          P == {x \in rels : TagVersion(x).ok}
          Top(S, x) == x \in S /\ \A y \in S : ~VerLess(TagVersion(x).val, TagVersion(y).val)
          sel == r.out
      IN  /\ IF IsSome(q.id.version_constraint)
             THEN LET M == {x \in P : Matches(Unwrap(q.id.version_constraint),
                                              TagVersion(x).val)}
                  IN  /\ IsSome(sel) <=> M # {}
                      /\ IsSome(sel) => Top(M, Unwrap(sel))
             ELSE IF IsNone(q.id.version) \/ q.id.version = Some(LATEST)
             THEN /\ IsSome(sel) <=> P # {}
                  /\ IsSome(sel) => Top(P, Unwrap(sel))
             ELSE LET x == Unwrap(q.id.version)
                  IN  /\ IsSome(sel) <=>
                           \E y \in rels : trim_start_matches_v(y.tag_name) = x
                      /\ IsSome(sel) => trim_start_matches_v(Unwrap(sel).tag_name) = x
          /\ r.stage.ok <=> IsSome(sel) /\ FindAsset(Unwrap(sel).assets, {"phar"}) > 0

\* C8: the registry stage's result follows the selected version's distribution
\* type: "path" gives a Phar; "zip" gives a ComposerPackage whose bin names are
\* the declared ones, each reduced to its last path segment, or, with none
\* declared, the package name's last segment; any other type gives no result for
\* that package name.
C8_DistTypeDecidesResult ==
    r.fn = "resolve_from_packagist" =>
      LET package == IF Contains(q.id.name, "/") THEN q.id.name
                     ELSE q.id.name \o <<"/">> \o q.id.name
          info == q.pk[1].versions[Sem(1, 9, 0)]
          declared == IF IsSome(info.bin) THEN Unwrap(info.bin) ELSE <<>>
          out == r.out
      IN  CASE info.dist_type = "path" ->
                 /\ out.ok
                 /\ out.tool = Phar(ToolInfo(q.id.name, Sem(1, 9, 0), info.url, None, None))
            [] info.dist_type = "zip" ->
                 /\ out.ok /\ out.tool.tag = "Composer"
                 /\ out.tool.pkg.package = package
                 /\ out.tool.pkg.version = Sem(1, 9, 0)
                 /\ IF Len(declared) > 0
                    THEN /\ Len(out.tool.pkg.bin_names) = Len(declared)
                         /\ \A i \in 1..Len(declared) :
                              /\ ~Contains(out.tool.pkg.bin_names[i], "/")
                              /\ out.tool.pkg.bin_names[i] = LastSegment(declared[i])
                    ELSE out.tool.pkg.bin_names = <<LastSegment(package)>>
            [] OTHER ->
                 /\ Contains(q.id.name, "/") => ~out.ok
                 /\ out.ok => /\ out.tool.tag = "Composer"
                              /\ out.tool.pkg.package = q.id.name
                              /\ out.tool.pkg.version = Sem(2, 0, 0)

C8_Witness ==
    /\ r.fn = "resolve_from_packagist"
    /\ q.id.name = RECTOR
    /\ q.pk[1].versions[Sem(1, 9, 0)].dist_type = "zip"
    /\ q.pk[1].versions[Sem(1, 9, 0)].bin = Some(<<<<"bin", "/", "rector">>>>)
    /\ r.out.ok /\ r.out.tool.pkg.bin_names = <<RECTOR>>

StageNo(contact) ==
    CASE contact.stage = "registry" -> 1
      [] contact.stage = "github" -> 2
      [] OTHER -> 3
Asked(trace, stage) == \E i \in 1..Len(trace) : trace[i].stage = stage

\* C9: resolve_tool asks the registry, then the release listing, then the direct
\* URLs, one request at a time; it returns the result of the first stage that
\* succeeds and asks a later stage only after every earlier one failed.  For an
\* unscoped name the registry is asked for name/name first, and for the bare
\* name only if name/name gave no result.
C9_StagesInOrder ==
    r.fn = "resolve_tool" =>
      LET t == r.out.trace
          id == q.id
          packagist == resolve_from_packagist(id, q.env.pk)
          github == resolve_from_github(id, q.env.gh)
          direct == resolve_from_direct_url(id, q.env.direct)
          conventional == id.name \o <<"/">> \o id.name
      IN  /\ \A i, j \in 1..Len(t) : i < j => StageNo(t[i]) <= StageNo(t[j])
          /\ Asked(t, "github") => ~packagist.ok
          /\ Asked(t, "direct") => ~packagist.ok /\ ~github.ok
          /\ id.name # COMPOSER =>
               /\ Asked(t, "registry")
               /\ packagist.ok => r.out.ok /\ r.out.tool = packagist.tool
               /\ ~packagist.ok /\ github.ok => r.out.ok /\ r.out.tool = github.tool
               /\ ~packagist.ok /\ ~github.ok /\ r.out.ok => r.out.tool = direct.tool
          /\ (id.name # COMPOSER /\ ~Contains(id.name, "/")) =>
               /\ t[1] = Contact("registry", conventional)
               /\ \A i \in 1..Len(t) :
                    t[i] = Contact("registry", id.name) =>
                      /\ i = 2
                      /\ ~PackagistLoop(id, <<conventional>>, q.env.pk, 1).ok

C9_Witness ==
    /\ r.fn = "resolve_tool"
    /\ q.id.name = RECTOR
    /\ r.out.ok
    /\ r.out.trace[1] = Contact("registry", <<"rector", "/", "rector">>)
    /\ r.out.trace[2] = Contact("registry", RECTOR)
    /\ Asked(r.out.trace, "github")
    /\ r.out.trace[Len(r.out.trace)].stage = "direct"

\* C10: resolve_tool fails exactly when the registry stage, the release-listing
\* stage and, where it is allowed, the direct-URL stage have all failed; its error
\* is then ToolNotFound whatever the stages' own errors were, and a failed stage's
\* error never keeps the following stage from being asked.
C10_FailsOnlyWithNotFound ==
    r.fn = "resolve_tool" =>
      LET t == r.out.trace
          id == q.id
          packagist == resolve_from_packagist(id, q.env.pk)
          github == resolve_from_github(id, q.env.gh)
          direct == resolve_from_direct_url(id, q.env.direct)
      IN  /\ id.name = COMPOSER => r.out.ok
          /\ id.name # COMPOSER =>
               /\ ~r.out.ok <=> /\ ~packagist.ok
                                /\ ~github.ok
                                /\ use_direct_url(id) => ~direct.ok
               /\ ~packagist.ok => Asked(t, "github")
               /\ (~packagist.ok /\ ~github.ok /\ use_direct_url(id)) => Asked(t, "direct")
          /\ ~r.out.ok => r.out.err = "ToolNotFound" /\ r.out.tool = NoTool

C10_Witness ==
    /\ r.fn = "resolve_tool"
    /\ resolve_from_packagist(q.id, q.env.pk).err = "Network"
    /\ resolve_from_github(q.id, q.env.gh).err = "Network"
    /\ resolve_from_direct_url(q.id, q.env.direct).err = "Network"
    /\ use_direct_url(q.id)
    /\ ~r.out.ok /\ r.out.err = "ToolNotFound"

\* the caller asked for a range or for an exact version other than "latest"
AsksSpecific(id) ==
    \/ IsSome(id.version_constraint)
    \/ (IsSome(id.version) /\ Unwrap(id.version) # LATEST)

\* C11: resolve_tool sends a request to a direct URL only for an identifier with
\* no range and with no exact version or the exact version "latest"; for a name
\* other than "composer" and a range or a concrete version, what resolve_tool
\* returns is never downloaded from one of the latest-alias URLs.
C11_DirectOnlyForLatest ==
    r.fn = "resolve_tool" =>
      /\ Asked(r.out.trace, "direct") => ~AsksSpecific(q.id)
      /\ (q.id.name # COMPOSER /\ AsksSpecific(q.id) /\ r.out.ok /\ r.out.tool.tag = "Phar") =>
            r.out.tool.info.download_url \notin Range(direct_urls(q.id.name))

\* a range, the registry and the release listing fail, the direct URL would answer
C11_Witness ==
    /\ r.fn = "resolve_tool"
    /\ q.id.name # COMPOSER /\ IsSome(q.id.version_constraint)
    /\ ~resolve_from_packagist(q.id, q.env.pk).ok
    /\ ~resolve_from_github(q.id, q.env.gh).ok
    /\ resolve_from_direct_url(q.id, q.env.direct).ok
    /\ ~r.out.ok /\ ~Asked(r.out.trace, "direct")

\* C12: for the name "composer" resolve_tool succeeds with a Phar named
\* "composer" whose download URL is the one bootstrap URL, whatever version or
\* range the identifier carries and whatever the remote sources would answer,
\* and it sends no request.
C12_BuiltinComposer ==
    (r.fn = "resolve_tool" /\ q.id.name = COMPOSER) =>
      /\ r.out.ok
      /\ r.out.tool.tag = "Phar"
      /\ r.out.tool.info.name = COMPOSER
      /\ r.out.tool.info.download_url = ComposerPharUrl
      /\ r.out.trace = <<>>

\* "composer" with an exact version, while the registry would answer
C12_Witness ==
    /\ r.fn = "resolve_tool" /\ q.id.name = COMPOSER
    /\ IsSome(q.id.version) /\ Unwrap(q.id.version) # LATEST
    /\ q.env.pk[1].status = "ok"
    /\ r.out.ok /\ r.out.trace = <<>>

\* C13: parse_identifier fails, with the invalid-identifier error, exactly when
\* the text holds more than one '@'; for name@X with X neither "latest" nor a
\* range it succeeds with version = X and no constraint; nothing but its result
\* changes.
C13_ParseErrorOnlyOnManyAts ==
    r.fn = "parse_identifier" =>
      LET ats == q.raw.ats
          id == r.out.id
      IN  /\ ~r.out.ok <=> Len(ats) > 1
          /\ ~r.out.ok => r.out.err = "InvalidToolIdentifier"
          /\ (Len(ats) = 1 /\ ats[1] # LATEST /\ ~VersionReqParse(ats[1]).ok) =>
                /\ r.out.ok
                /\ id = ToolIdentifier(q.raw.name, None, Some(ats[1]))
          /\ mem = [p \in Procs |-> {}] /\ doc = {} /\ fs = NoFiles

C13_Witness ==
    /\ r.fn = "parse_identifier"
    /\ q.raw.ats = <<Lit("dev-main")>>
    /\ r.out.ok
    /\ r.out.id.version = Some(Lit("dev-main")) /\ IsNone(r.out.id.version_constraint)

\* C14: a successful parse never sets both version_constraint and version: a
\* bare name sets neither, name@latest only version = "latest", name@X with X a
\* range only version_constraint, any other name@X only version = X.
C14_AtMostOneOfConstraintAndVersion ==
    (r.fn = "parse_identifier" /\ r.out.ok) =>
      LET ats == q.raw.ats
          id == r.out.id
      IN  /\ ~(IsSome(id.version_constraint) /\ IsSome(id.version))
          /\ Len(ats) = 0 => IsNone(id.version_constraint) /\ IsNone(id.version)
          /\ (Len(ats) = 1 /\ ats[1] = LATEST) =>
                IsNone(id.version_constraint) /\ id.version = Some(LATEST)
          /\ (Len(ats) = 1 /\ ats[1] # LATEST /\ VersionReqParse(ats[1]).ok) =>
                /\ id.version_constraint = Some(VersionReqParse(ats[1]).val)
                /\ IsNone(id.version)
          /\ (Len(ats) = 1 /\ ats[1] # LATEST /\ ~VersionReqParse(ats[1]).ok) =>
                IsNone(id.version_constraint) /\ id.version = Some(ats[1])

C14_Witness ==
    /\ r.fn = "parse_identifier"
    /\ q.raw.ats = <<Req("^", 1, 0, -1)>>
    /\ r.out.ok
    /\ IsSome(r.out.id.version_constraint) /\ IsNone(r.out.id.version)

(***************************************************************************)
(* Properties of the program (checked under Spec)                          *)
(***************************************************************************)
\* the identifier of the last run_tool and what the run did
LastId == parse_identifier(last.raw).id
Ran == last.op = "run_tool"
ExecutedArtifact == Ran /\ last.out.from \in {"cache", "remote", "installed"}

\* C1: a run that executes a cached, downloaded or installed artifact executes
\* one whose recorded version satisfies the identifier's range, or is the
\* identifier's exact version (up to a leading "v").
C1_ExecutedVersionAsRequested ==
    ExecutedArtifact =>
      LET version == Unwrap(last.out.version)
      IN  /\ IsSome(LastId.version_constraint) =>
                /\ VersionParse(version).ok
                /\ Matches(Unwrap(LastId.version_constraint), VersionParse(version).val)
          /\ (IsSome(LastId.version) /\ Unwrap(LastId.version) # LATEST) =>
                trim_start_matches_v(version) = trim_start_matches_v(Unwrap(LastId.version))

\* C2: a run for a range or an exact version other than "latest" never executes
\* a cached entry recorded as "latest"; when the lookup asks for the key of such an
\* entry the run goes on to resolve_tool (called once by the version query of a
\* range, and once more to resolve).
C2_LatestEntryNeverHit ==
    (Ran /\ (\/ IsSome(LastId.version_constraint)
             \/ (IsSome(LastId.version) /\ Unwrap(LastId.version) # LATEST))) =>
      /\ last.out.from = "cache" => Unwrap(last.out.version) # LATEST
      /\ (IsSome(last.out.looked) /\ Unwrap(last.out.looked).ver = LATEST) =>
            /\ last.out.from # "cache"
            /\ last.out.resolves = IF IsSome(LastId.version) THEN 1 ELSE 2

C2_Witness ==
    /\ Ran /\ IsSome(LastId.version_constraint)
    /\ last.out.rejected
    /\ last.out.from = "remote"
    /\ last.out.resolves = 2

\* C3: the sweep of Runner::new removes from the loaded map exactly the entries
\* with now - last_accessed > ttl, deletes their files and directories, leaves the
\* other entries and every other path as they were, and saves the remaining map.
C3_SweepRemovesExactlyExpired ==
    [][(pc[1] = "off" /\ pc'[1] = "ready") =>
        LET expired == {e \in doc : now - e.entry.last_accessed > Ttl}
            gone == {e.entry.file_path : e \in expired}
        IN  /\ mem'[1] = doc \ expired
            /\ doc' = mem'[1]
            /\ DOMAIN fs' = DOMAIN fs \ gone
            /\ \A path \in DOMAIN fs' : fs'[path] = fs[path]]_vars

C3_Witness ==
    /\ last.op = "new" /\ last.status = "ok"
    /\ last.removed # {}
    /\ \E e \in mem[1] : now - e.entry.last_accessed = Ttl
    /\ \E e \in mem[1] : Exists(fs, e.entry.file_path)
    /\ doc = mem[1]

\* C4: after a run served from the cache, the document holds the entry that was
\* looked up with last_accessed set to the time of the run.
C4_HitPersistsLastAccessed ==
    (Ran /\ last.out.from = "cache") =>
      \E e \in doc : /\ e.key = Unwrap(last.out.looked)
                     /\ e.entry.last_accessed = last.at

\* C5: the map of every process and the document hold at most one entry per key,
\* and after an add the entry under the added key is the one just added.
C5_OneEntryPerKey ==
    /\ \A p \in Procs : \A a, b \in mem[p] : a.key = b.key => a = b
    /\ \A a, b \in doc : a.key = b.key => a = b
    /\ (Ran /\ IsSome(last.out.added)) =>
          \A held \in {mem[1], doc} :
            /\ Unwrap(last.out.added) \in Keys(held)
            /\ \A e \in held : e.key = Unwrap(last.out.added) =>
                  /\ e.entry.created_at = last.at
                  /\ e.entry.last_accessed = last.at

\* an entry is added under a key that the lookup had just found in the map
C5_Witness ==
    /\ Ran /\ last.out.rejected
    /\ last.out.added = last.out.looked
    /\ last.at > 0
    /\ Cardinality({e \in doc : e.key = Unwrap(last.out.added)}) = 1

\* a step of run_tool, and the installer's part in the run that has just ended
RunStep == pc[1] = "ready" /\ pc'[1] = "done"
Installer == Unwrap(last.out.install)
InstallFailed ==
    /\ Ran /\ IsSome(last.out.install)
    /\ Installer.ran
    /\ \/ last.ending = "fail"
       \/ last.ending = "nobin" /\ ~Installer.had

C16_InstallFailureIsFatal ==
    [][(RunStep /\ InstallFailed') =>
        /\ last'.out.status = "err" /\ last'.out.err = "ComposerInstallFailed"
        /\ last'.out.from = "none" /\ last'.out.path = None
        /\ last'.out.added = None
        /\ Keys(mem'[1]) \subseteq Keys(mem[1])
        /\ Keys(doc') \subseteq Keys(doc)
        /\ last'.out.resolves =
              IF last'.flags.no_cache \/ IsSome(parse_identifier(last'.raw).id.version)
              THEN 1 ELSE 2]_vars

\* `composer install` exits with 0 and leaves no vendor/bin/<bin>
C16_Witness ==
    /\ InstallFailed /\ last.ending = "nobin"
    /\ Exists(fs, Installer.dir) /\ Installer.bin \notin fs[Installer.dir].bins
    /\ last.out.err = "ComposerInstallFailed"

\* C17: with local lookup enabled, a run whose tool is in the project's vendor/bin
\* or in the global Composer bin executes it at once: no lookup in the map, no
\* call of resolve_tool, and the map, the document and the files stay as they
\* were, also under --clear-cache; with --no-local no run executes a local tool.
C17_LocalToolFirst ==
    [][RunStep =>
        LET id == parse_identifier(last'.raw)
            here == {"vendor", "global"} \cap last'.system # {}
        IN  /\ (id.ok /\ ~last'.flags.no_local /\ here) =>
                  /\ last'.out.from = "local"
                  /\ last'.out.path =
                        Some((IF "vendor" \in last'.system THEN <<"vendor/bin">>
                              ELSE <<"~/.composer/vendor/bin">>) \o id.id.name)
                  /\ last'.out.looked = None /\ last'.out.added = None
                  /\ last'.out.resolves = 0 /\ last'.out.asked = 0
                  /\ mem'[1] = mem[1] /\ doc' = doc /\ fs' = fs
            /\ last'.out.from = "local" => (~last'.flags.no_local /\ here)]_vars

\* --clear-cache with the tool in vendor/bin: the entries of the tool stay
C17_Witness ==
    /\ Ran /\ last.out.from = "local"
    /\ last.flags.clear_cache
    /\ \E e \in doc : e.entry.tool_name = LastId.name

\* C18: a run with --clear-cache that does not execute a local tool executes
\* nothing that an earlier run has left: neither a cached entry nor an earlier
\* installation.
C18_ClearCacheRunsNothingOld ==
    (Ran /\ last.flags.clear_cache /\ last.out.from # "local") =>
      last.out.from \notin {"cache", "installed"}

\* C19: a run that executes a cached entry has not called resolve_tool and has
\* sent no request to a remote source.
C19_HitWithoutResolver ==
    (Ran /\ last.out.from = "cache") =>
      last.out.resolves = 0 /\ last.out.asked = 0

\* C20: a run executes a cached entry only when its path exists; and, unless
\* verification is disabled, only when a directory holds vendor/bin/<bin> and a
\* file has the recorded size and, where one is recorded, the recorded hash.
C20_HitOnlyWithBackingPath ==
    (Ran /\ last.out.from = "cache") =>
      LET path == Unwrap(last.out.path)
      IN  /\ Exists(fs, path)
          /\ ~last.flags.skip_verify =>
                \A e \in mem[1] : e.key = Unwrap(last.out.looked) =>
                    verify_cached_tool(fs, e.entry, FALSE)

\* C22: a run with --no-cache that executes a downloaded or installed artifact
\* has downloaded or installed it in this run, and has written its entry.
C22_NoCacheRunsNothingOld ==
    (Ran /\ last.flags.no_cache /\ ExecutedArtifact) =>
      /\ last.out.from = "remote"
      /\ IsSome(last.out.added)
      /\ IsSome(last.out.install) => Installer.ran

\* C38: a run calls resolve_tool at most once, and the key it looks up in the
\* map is the key under which it records what it downloads or installs.
C38_ResolverCalledOnce ==
    Ran =>
      /\ last.out.resolves <= 1
      /\ (IsSome(last.out.looked) /\ IsSome(last.out.added)) =>
            last.out.added = last.out.looked

\* the entries of after are those of before, up to last_accessed
SameEntries(before, after) ==
    /\ Keys(after) = Keys(before)
    /\ \A e \in after : \E f \in before :
          /\ f.key = e.key
          /\ e.entry = [f.entry EXCEPT !.last_accessed = e.entry.last_accessed]

\* C23: a run that executes a downloaded file has written, in the map and in
\* cache.json, a file entry for the path it executes, with the length of the file;
\* a run that executes a new installation has written a directory entry with the
\* binary it executes; an entry is written by a successful download or install
\* only; and when the download fails the run executes nothing, cache.json is as
\* it was and the map holds the entries it held.
C23_EntryBetweenFetchAndExecute ==
    [][RunStep =>
        /\ (last'.out.from = "remote" /\ IsNone(last'.out.install)) =>
              /\ IsSome(last'.out.added) /\ doc' = mem'[1]
              /\ \E e \in doc' :
                    /\ e.key = Unwrap(last'.out.added)
                    /\ ~e.entry.is_composer
                    /\ Some(e.entry.file_path) = last'.out.path
                    /\ Exists(fs', e.entry.file_path)
                    /\ e.entry.size = Len(fs'[e.entry.file_path].bytes)
                    /\ e.entry.created_at = now
        /\ (last'.out.from = "remote" /\ IsSome(last'.out.install)) =>
              /\ Unwrap(last'.out.install).ran
              /\ IsSome(last'.out.added) /\ doc' = mem'[1]
              /\ \E e \in doc' :
                    /\ e.key = Unwrap(last'.out.added)
                    /\ e.entry.is_composer
                    /\ e.entry.bin_name = Some(Unwrap(last'.out.install).bin)
                    /\ e.entry.file_path = Unwrap(last'.out.install).dir
                    /\ Unwrap(last'.out.install).bin \in fs'[e.entry.file_path].bins
                    /\ e.entry.created_at = now
        /\ IsSome(last'.out.added) => last'.out.from = "remote"
        /\ (last'.out.err = "Network" /\ ~last'.flags.clear_cache) =>
              /\ last'.out.from = "none" /\ last'.out.path = None
              /\ last'.out.added = None
              /\ doc' = doc /\ fs' = fs
              /\ SameEntries(mem[1], mem'[1])]_vars

\* a download into a cache that already holds an entry
C23_Witness ==
    /\ Ran /\ last.out.from = "remote" /\ IsNone(last.out.install)
    /\ last.out.status = "ok"
    /\ Cardinality(doc) = 2
    /\ \E e \in doc : e.key = Unwrap(last.out.added) /\ e.entry.size = Len(Phar1)

(***************************************************************************)
(* Properties of launches on a damaged cache (checked under SpecDamage)     *)
(***************************************************************************)
\* what verify_cached_tool is to refuse: a missing path, a file of another
\* length or with another hash than recorded, an installation without its binary
Broken(files, entry) ==
    \/ ~Exists(files, entry.file_path)
    \/ /\ Exists(files, entry.file_path) /\ ~entry.is_composer
       /\ \/ files[entry.file_path].kind # "file"
          \/ Len(files[entry.file_path].bytes) # entry.size
          \/ /\ IsSome(entry.file_hash) /\ Unwrap(entry.file_hash) # <<>>
             /\ Unwrap(entry.file_hash) # <<"md5">> \o files[entry.file_path].bytes
    \/ /\ Exists(files, entry.file_path) /\ entry.is_composer
       /\ \A b \in files[entry.file_path].bins : Some(b) # entry.bin_name

\* the entry that the run about to end looked up is in the map and is broken
LooksUpBroken ==
    /\ RunStep
    /\ IsSome(last'.out.looked)
    /\ ~last'.flags.skip_verify /\ ~last'.flags.clear_cache
    /\ \E e \in mem[1] : e.key = Unwrap(last'.out.looked) /\ Broken(fs, e.entry)

\* C21: a run whose cache lookup finds an entry that fails verification does not
\* execute it and does not fail on it: resolve_tool is called as on a miss, the
\* only errors are those of the resolver, the download, the install or the child,
\* and a successful download or install under the key looked up leaves one entry
\* under that key, created in this run, that verifies.
C21_BrokenEntryFallsThrough ==
    [][LooksUpBroken =>
        /\ last'.out.from # "cache"
        /\ last'.out.err # "Cache"
        /\ last'.out.resolves =
              1 + (IF IsSome(parse_identifier(last'.raw).id.version) THEN 0 ELSE 1)
        /\ last'.out.status = "err" =>
              last'.out.err \in {"ToolNotFound", "Network", "ComposerInstallFailed",
                                 "ExecutionFailed"}
        /\ (last'.out.from = "remote" /\ last'.out.added = last'.out.looked) =>
              \A held \in {mem'[1], doc'} :
                /\ Cardinality({e \in held : e.key = Unwrap(last'.out.added)}) = 1
                /\ \A e \in held : e.key = Unwrap(last'.out.added) =>
                      /\ e.entry.created_at = now
                      /\ ~Broken(fs', e.entry)]_vars

\* a cached file that no longer verifies is downloaded again under its key
C21_Witness ==
    /\ Ran /\ last.out.unverified
    /\ last.out.from = "remote" /\ last.out.status = "ok"
    /\ last.out.added = last.out.looked
    /\ \E e \in doc : /\ e.key = Unwrap(last.out.looked)
                      /\ ~e.entry.is_composer
                      /\ fs[e.entry.file_path] = File(Phar1)

\* C35: the repositories asked for a name are, for each casing of the name in
\* turn and the exact case first, the repository itself, the repository with
\* "php-" before its name and the repository with "-php" after its name; no
\* repository is listed twice.
C35_CandidateRepositories ==
    (r.fn = "base_urls") =>
      /\ r.variants[1] = github_owner_repo(q.name)
      /\ Len(r.out) = 3 * Len(r.variants)
      /\ \A k \in 1..Len(r.variants) :
            LET owner == r.variants[k][1]
                repo == r.variants[k][2]
            IN  /\ r.out[3 * k - 2] = owner \o <<"/">> \o repo
                /\ r.out[3 * k - 1] = owner \o <<"/", "php", "-">> \o repo
                /\ r.out[3 * k] = owner \o <<"/">> \o repo \o <<"-", "php">>
      /\ \A i, j \in 1..Len(r.out) : r.out[i] = r.out[j] => i = j

(***************************************************************************)
(* Properties of the cache map and the override directory (SpecStore)       *)
(***************************************************************************)
\* the entries that remove_entry(name, version) is to take
Taken(entries, name, version) ==
    {e \in entries : /\ e.entry.tool_name = name
                     /\ IsSome(version) => e.entry.version = Unwrap(version)}

\* C24: a remove_entry that returns Ok has removed from the map exactly the
\* entries of the named tool (of the named version, when one is given), has
\* deleted their paths and no other path, has left every other entry as it was,
\* and has saved the remaining map as the document.
C24_RemoveEntryRemovesExactly ==
    (r.fn = "remove_entry" /\ r.out.ok) =>
      LET taken == Taken(q.S.entries, q.name, q.version)
          gone == {e.entry.file_path : e \in taken}
      IN  /\ r.out.S.entries = q.S.entries \ taken
          /\ r.out.S.doc = r.out.S.entries
          /\ DOMAIN r.out.S.fs = DOMAIN q.S.fs \ gone
          /\ \A path \in DOMAIN r.out.S.fs : r.out.S.fs[path] = q.S.fs[path]

\* "php" is removed while "phpstan" has a file entry and a directory entry
C24_Witness ==
    /\ r.fn = "remove_entry" /\ r.out.ok
    /\ q.name = PHP /\ q.version = None
    /\ q.S.entries = EntryPool
    /\ Keys(r.out.S.entries) = {build_key(PHPSTAN, Sem(1, 10, 0)), build_key(PHPSTAN, Sem(2, 0, 0))}
    /\ Exists(r.out.S.fs, InstallDir(PHPSTAN, Sem(2, 0, 0)))
    /\ ~Exists(r.out.S.fs, InstallDir(PHP, Sem(2, 0, 0)))

\* C25: ensure_override_installed leaves cache.json and the storage of the main
\* cache as they were and adds or removes no entry of the map: the entries are
\* those of before up to last_accessed, and only an entry of "composer" differs;
\* when the directory and its vendor/autoload.php exist it returns the directory
\* at once, with nothing changed and `composer install` not started; and it
\* succeeds exactly when that holds or `composer install` ran, exited with
\* success and vendor/autoload.php is there, whatever is in vendor/bin.
C25_OverrideInstallKeepsMainCache ==
    (r.fn = "ensure_override_installed") =>
      LET dir == OverrideDir(q.package, q.version)
          present(ov) == dir \in DOMAIN ov /\ ov[dir].kind = "dir" /\ ov[dir].autoload
      IN  /\ r.out.S.doc = q.S.doc
          /\ r.out.S.fs = q.S.fs
          /\ SameEntries(q.S.entries, r.out.S.entries)
          /\ \A e \in r.out.S.entries \ q.S.entries : e.entry.tool_name = COMPOSER
          /\ present(q.ov) => /\ r.out.ok /\ ~r.out.ran /\ r.out.path = dir
                               /\ r.out.ov = q.ov /\ r.out.S = q.S
          /\ r.out.ok <=> \/ present(q.ov)
                          \/ r.out.ran /\ q.ending # "fail" /\ present(r.out.ov)

\* an install with the cached composer.phar: the directory is there afterwards
\* and the entry of "composer" differs in the map by its last_accessed
C25_Witness ==
    /\ r.fn = "ensure_override_installed" /\ r.out.ok /\ r.out.ran
    /\ OverrideDir(q.package, q.version) \notin DOMAIN q.ov
    /\ r.out.ov[OverrideDir(q.package, q.version)].autoload
    /\ ComposerEntry \in q.S.entries
    /\ r.out.S.entries # q.S.entries
    /\ r.out.S.doc = q.S.doc

\* C25 as stated: ensure_override_installed leaves every entry of the map and
\* cache.json exactly as they were.
C25_MainCacheUntouched ==
    (r.fn = "ensure_override_installed") =>
      /\ r.out.S.entries = q.S.entries
      /\ r.out.S.doc = q.S.doc

\* C26: after ensure_override_installed(package, version) succeeds,
\* list_override_packages reports its directory with that package and that
\* version.
C26_OverrideNameRoundTrip ==
    (r.fn = "ensure_override_installed" /\ r.out.ok) =>
      \E i \in 1..Len(r.listed) :
         /\ r.listed[i].path = r.out.path
         /\ r.listed[i].package = q.package
         /\ r.listed[i].version = q.version

\* C27: remove_override_package(package, version) removes the directories
\* installed for that package (for that version of it, when one is given), and
\* leaves every other directory as it was.
C27_RemoveOverrideOnlyThatPackage ==
    (r.fn = "remove_override_package") =>
      LET meant == {name \in DOMAIN q.ov :
                      /\ q.ov[name].require[1] = q.package
                      /\ IsSome(q.version) => q.ov[name].require[2] = Unwrap(q.version)}
      IN  /\ DOMAIN r.out.ov = DOMAIN q.ov \ meant
          /\ \A name \in DOMAIN r.out.ov : r.out.ov[name] = q.ov[name]

\* C31: remove_entry drops an entry from the map only when its storage is gone,
\* and when a deletion fails it returns the error with the entries of the tool
\* whose storage is still there in the map, and the map equal to cache.json.
C31_EntryDroppedAfterStorage ==
    (r.fn = "remove_entry") =>
      /\ \A e \in q.S.entries \ r.out.S.entries : ~Exists(r.out.S.fs, e.entry.file_path)
      /\ ~r.out.ok => r.out.S.entries = r.out.S.doc

\* C32: a sweep without overflow returns with every expired entry out of the map,
\* also those of which the storage could not be deleted; the storage of the
\* other expired entries is deleted, the entries that are not expired and every
\* other path are as before, and cache.json equals the map.
C32_SweepIgnoresDeleteFailure ==
    (r.fn = "cleanup_old_entries" /\ ~Overflows(q.S.entries, q.t)) =>
      LET expired == {e \in q.S.entries : q.t - e.entry.last_accessed > Ttl}
          deleted == {e.entry.file_path : e \in expired} \ q.refused
      IN  /\ r.status = "ok"
          /\ r.out.entries = q.S.entries \ expired
          /\ r.out.doc = r.out.entries
          /\ DOMAIN r.out.fs = DOMAIN q.S.fs \ deleted
          /\ \A path \in DOMAIN r.out.fs : r.out.fs[path] = q.S.fs[path]

\* two entries are expired and the directory of one cannot be deleted: both are
\* out of the map, the directory is still there, the file of the other is gone
C32_Witness ==
    /\ r.fn = "cleanup_old_entries" /\ r.status = "ok"
    /\ ~Overflows(q.S.entries, q.t)
    /\ q.refused = {InstallDir(PHP, Sem(2, 0, 0))}
    /\ Keys(q.S.entries) = {build_key(PHP, Sem(1, 10, 0)), build_key(PHP, Sem(2, 0, 0)),
                            build_key(PHPSTAN, Sem(1, 10, 0))}
    /\ Keys(r.out.entries) = {build_key(PHPSTAN, Sem(1, 10, 0))}
    /\ r.out.doc = r.out.entries
    /\ Exists(r.out.fs, InstallDir(PHP, Sem(2, 0, 0)))
    /\ ~Exists(r.out.fs, PharPath(PHP, Sem(1, 10, 0)))
    /\ Exists(r.out.fs, PharPath(PHPSTAN, Sem(1, 10, 0)))

\* C40: a sweep at a time earlier than an entry's last_accessed returns, and
\* keeps that entry.
C40_AgeNeverUnderflows ==
    (r.fn = "cleanup_old_entries") =>
      /\ r.status = "ok"
      /\ \A e \in q.S.entries : e.entry.last_accessed > q.t => e \in r.out.entries

(***************************************************************************)
(* Properties of a launch (checked under SpecLaunch)                       *)
(***************************************************************************)
\* the launch started the child
Started == r.fn = "main" /\ IsSome(r.out.php)

\* C28: when the child exits with a code c other than 0 the run ends with
\* ExecutionFailed(c), the process exits with c and prints no error line; when the
\* child exits with 0 the process exits with 0 and prints none; on every other
\* error the process prints one error line and exits with 1.
C28_ChildExitStatusVerbatim ==
    (r.fn = "main") =>
      /\ (Started /\ q.code = Some(0)) => r.end = [exit |-> 0, printed |-> 0]
      /\ (Started /\ IsSome(q.code) /\ q.code # Some(0)) =>
            /\ r.out.status = "err" /\ r.out.err = "ExecutionFailed"
            /\ r.out.code = Unwrap(q.code)
            /\ r.end = [exit |-> Unwrap(q.code), printed |-> 0]
      /\ (r.out.status = "err" /\ r.out.err # "ExecutionFailed") =>
            r.end = [exit |-> 1, printed |-> 1]

\* the child exits with 3 and so does the process, with no error line
C28_Witness ==
    /\ Started /\ q.code = Some(3)
    /\ r.out.err = "ExecutionFailed"
    /\ r.end = [exit |-> 3, printed |-> 0]

\* C29: a launch that reaches the execution of the cached tool starts the child
\* with the given interpreter when one is given and exists, otherwise with the
\* first working path of the list; it fails with an execution error, and starts
\* no child, only when neither is there.
C29_InterpreterResolution ==
    (r.fn = "main" /\ r.out.err # "Config" /\ q.S.entries # {}) =>
      LET given == IF IsSome(q.php) THEN q.php ELSE r.config.default_php_path
          expected == IF IsSome(given) /\ Unwrap(given) \in q.system THEN given
                      ELSE first_working([system |-> q.system]).path
      IN  /\ IsSome(expected) => r.out.php = expected
          /\ ~IsSome(expected) => r.out.err = "Execution" /\ ~Started

\* C30: a launch whose configuration file is malformed goes on with the default
\* configuration and does not end with a configuration error.
C30_MalformedConfigFallsBack ==
    (r.fn = "main" /\ q.file.state = "malformed") =>
      /\ r.out.err # "Config"
      /\ r.config = TheConfig
      /\ (q.S.entries # {} /\ q.php = None /\ "php" \in q.system) => Started

\* C34: a launch in a project of which the PHP constraint is a plain version X,
\* with no interpreter given, logs the warning exactly when the interpreter's
\* version is below X; with a range, exactly when the version is outside the
\* range; with an empty constraint never; and the child is started whether or
\* not the warning is logged.
C34_PlainVersionIsMinimum ==
    (r.fn = "main" /\ IsSome(q.project) /\ IsSome(q.php_version) /\ q.php = None) =>
      LET constraint == Unwrap(q.project)
          version == VersionParse(Unwrap(q.php_version)).val
      IN  /\ Started
          /\ r.out.warned <=>
                IF constraint = Lit("") THEN FALSE
                ELSE IF VersionParse(constraint).ok
                THEN VerLess(version, VersionParse(constraint).val)
                ELSE ~(/\ VersionReqParse(constraint).ok
                       /\ Matches(VersionReqParse(constraint).val, version))

\* C39: when a launch on an empty cache has downloaded or installed its tool,
\* recorded it and executed it, the same launch repeated at once finds the entry
\* in the lookup of run_tool and executes it from the cache: nothing is added
\* and no installer is called.
C39_SecondRunHitsTheCache ==
    (r.fn = "twice" /\ r.first.status = "ok" /\ IsSome(r.first.added)) =>
      /\ r.second.status = "ok"
      /\ r.second.from = "cache"
      /\ r.second.path = r.first.path
      /\ r.second.added = None
      /\ r.second.install = None

(***************************************************************************)
(* Properties of overlapping launches (specification SpecShared)           *)
(***************************************************************************)
\* C33: cache.json holds at every instant one whole map written by one save:
\* it is never left empty or partial, by a save in progress or by a crash in
\* a save, and no launch fails to load it.
C33_DocumentAlwaysWhole ==
    /\ ~torn
    /\ ~(last.op = "new" /\ last.status = "error")

\* C36: when two launches have each recorded an entry under a different key and
\* both have finished, cache.json holds both entries, and every entry that both
\* kept in their maps.
C36_NoLostUpdate ==
    ((\A p \in Procs : pc[p] = "done" /\ IsSome(job[p][1].added))
       /\ job[1][1].added # job[2][1].added) =>
      /\ \A p \in Procs : Unwrap(job[p][1].added) \in Keys(doc)
      /\ Keys(mem[1]) \cap Keys(mem[2]) \subseteq Keys(doc)

\* C37: while a launch executes an artifact that it took from the cache, the
\* file or directory of the artifact stays in the cache directory as it was
\* when the child was started.
C37_ExecutedArtifactUntouched ==
    [][\A p \in Procs :
         (pc[p] = "running" /\ pc'[p] = "running" /\ job[p][1].from = "cache") =>
            /\ Exists(fs', Unwrap(job[p][1].path))
            /\ fs'[Unwrap(job[p][1].path)] = Unwrap(job[p][1].artifact)]_vars

====
